---- MODULE Spec2Model ----
(***************************************************************************)
(* UPS Monitor integration (custom_components/ups_monitor): the snapshot   *)
(* store kept in hass.data, the reconnecting websocket listener that       *)
(* writes it, the change signal sent after every update, and the sensor    *)
(* and button platforms that discover entities from the store.             *)
(*                                                                         *)
(* Scheduling.  The listener task, the stop handlers and the platform      *)
(* set-up run on the host's event loop: each runs from one await to the    *)
(* next without interruption, so each such stretch is one action.  The     *)
(* discovery handlers _maybe_add_entities are connected to the dispatcher  *)
(* as plain functions (neither coroutines nor @callback functions), which  *)
(* the host dispatcher runs as executor jobs in worker threads; a         *)
(* discovery pass started by a signal is therefore a sequence of steps     *)
(* that interleaves with the event loop and with other passes.             *)
(***************************************************************************)
EXTENDS Naturals, Sequences, FiniteSets, TLC

VARIABLES
    data,       \* hass.data[DOMAIN]: entry_id -> store ("devices", "configured_names")
    rt,         \* store["runtime"] and the listener task: stop_event, task, socket, sleep
    life,       \* the config entry's lifecycle: loaded, unloading, unloaded; host stop fired
    sensor,     \* sensor platform: subscription, ledger "added", discovery passes
    button,     \* button platform: subscription, ledger "added", discovery passes
    last,       \* history: the step taken last and what it did (payload, raise, signal)
    seed,       \* async_setup_entry: the seed loop's attempt, sleep and fetched data
    press,      \* UPSCommandButton.async_press: the call in progress and _last_result
    entity,     \* sensor entities: _attr_available, _attr_native_value, pending jobs
    http,       \* build_http_url: the address given, the path asked, the URL returned
    options,    \* entry.options["devices"]: the configured devices, by device_name
    flow        \* the options flows in progress: step, _pending_device, form errors

plat == <<sensor, button, entity>>
conf == <<options, flow>>
side == <<http, conf>>
calls == <<seed, press, side>>
vars == <<data, rt, life, sensor, button, last, seed, press, entity, http,
          options, flow>>

-----------------------------------------------------------------------------
(* Bounds and program constants *)

MaxDevices == 3                 \* devices in the options of the entry
MaxReloads == 2                 \* options updates whose reload is still to come
MaxList == 2                    \* longest device list in one websocket message
UPDATE_SIGNAL == "ups_monitor_update"  \* const.py: the stem of the signal names
RECONNECT_DELAY == 5            \* const.py: seconds between a disconnect and the next attempt

EntryIds == {"e1"}              \* the config entries set up

NoneVal == "<None>"             \* Python's None, where a string is expected

-----------------------------------------------------------------------------
(* JSON values received from the server *)

\* A JSON object is a record; obj.get(key) is Get(obj, key).  A list entry that
\* is not an object (a number, a string) is [scalar |-> text].  The object
\* "attributes" is a Python dict, its keys in the order of the JSON text.
Attr(key, value) == [k |-> key, v |-> value]

DevA1 == [device_name |-> "a", type |-> "nut",
          attributes |-> <<Attr("status", "OL"), Attr("load", "10")>>]
DevA2 == [device_name |-> "a", type |-> "nut",
          attributes |-> <<Attr("status", "OB")>>]
DevB1 == [device_name |-> "b", type |-> "apcupsd",
          attributes |-> <<Attr("load", "20")>>]
\* a with three attributes, none in its place
DevA3 == [device_name |-> "a", type |-> "nut",
          attributes |-> <<Attr("xon_battery", "0"), Attr("status", "OL"),
                           Attr("load", "10")>>]
\* Device a as an apcupsd server reports it on battery, and on mains with its
\* battery disconnected
DevA4 == [device_name |-> "a", type |-> "apcupsd",
          attributes |-> <<Attr("status", "ONBATT"), Attr("load", "10")>>]
DevA5 == [device_name |-> "a", type |-> "apcupsd",
          attributes |-> <<Attr("status", "ONLINE NOBATT"), Attr("load", "10")>>]
\* Device a with the flag xon_battery
DevA6 == [device_name |-> "a", type |-> "nut",
          attributes |-> <<Attr("status", "OL"), Attr("xon_battery", "1")>>]
\* Device a with an attribute whose name has a hyphen, and a device whose
\* name has one
DevH1 == [device_name |-> "a", type |-> "nut",
          attributes |-> <<Attr("status", "OL"), Attr("b-status", "10")>>]
DevH2 == [device_name |-> "a-b", type |-> "nut",
          attributes |-> <<Attr("status", "OL")>>]
Unnamed == [type |-> "nut", attributes |-> <<Attr("load", "10")>>]
\* c, whose snapshot has no key "type"
DevC1 == [device_name |-> "c", attributes |-> <<Attr("load", "30")>>]
Scalar == [scalar |-> "5"]

ListEntries == {DevA1, DevA2, DevB1, Unnamed, Scalar}

TextPayload == [kind |-> "text"]            \* text that is not JSON
ObjectPayload == [kind |-> "object"]        \* JSON, but an object instead of a list
ListPayload(items) == [kind |-> "list", items |-> items]
NoPayload == [kind |-> "none"]

SeqsUpTo(S, n) == UNION {[1..k -> S] : k \in 0..n}

\* A list whose second entry is not an object, between two devices
PartWayList == <<DevA1, Scalar, DevB1>>

Payloads == {TextPayload, ObjectPayload, ListPayload(PartWayList)}
              \cup {ListPayload(s) : s \in SeqsUpTo(ListEntries, MaxList)}

ConfigChoices == {{}, {"a"}, {"a", "b"}}    \* configured_names of the entry

-----------------------------------------------------------------------------
(* Python dict: a sequence of [k, v] in insertion order *)

DictKeys(d) == {d[i].k : i \in 1..Len(d)}
DictHas(d, key) == key \in DictKeys(d)
DictGet(d, key) == (CHOOSE i \in 1..Len(d) : d[i].k = key)
DictValue(d, key) == d[DictGet(d, key)].v
\* Variants of DictSet that a slip in the update loop would give
DictSetAppend(d, key, value) == Append(d, [k |-> key, v |-> value])
DictSetReplaceAll(d, key, value) == <<[k |-> key, v |-> value]>>
DictSetMergeAttrs(d, key, value) ==
    IF DictHas(d, key)
    THEN LET old == d[DictGet(d, key)].v
             merged == IF "attributes" \in DOMAIN value /\ "attributes" \in DOMAIN old
                       THEN [value EXCEPT !.attributes =
                               @ \o SelectSeq(old.attributes,
                                              LAMBDA a : a.k \notin DictKeys(value.attributes))]
                       ELSE value
         IN  [d EXCEPT ![DictGet(d, key)] = [k |-> key, v |-> merged]]
    ELSE Append(d, [k |-> key, v |-> value])

DictSet(d, key, value) ==
    IF DictHas(d, key)
    THEN [d EXCEPT ![DictGet(d, key)] = [k |-> key, v |-> value]]
    ELSE Append(d, [k |-> key, v |-> value])

IsObject(x) == "scalar" \notin DOMAIN x
Get(obj, key) == IF key \in DOMAIN obj THEN obj[key] ELSE NoneVal
Falsy(x) == x \in {NoneVal, ""}

-----------------------------------------------------------------------------
(* _update_state *)

\* json.loads(payload): fails on text that is not JSON
JsonLoads(payload) ==
    IF payload.kind = "text" THEN [ok |-> FALSE, value |-> NoPayload]
    ELSE [ok |-> TRUE, value |-> payload]

\* devices_list = data if isinstance(data, list) else []
DevicesList(value) == IF value.kind = "list" THEN value.items ELSE <<>>

\* store = hass.data.setdefault(DOMAIN, {}).setdefault(entry_id, {})
\* devices_dict = store.setdefault("devices", {})
StoreSetDefault(d, e) ==
    IF e \in DOMAIN d
    THEN IF "devices" \in DOMAIN d[e] THEN d
         ELSE [d EXCEPT ![e] = [devices |-> <<>>] @@ d[e]]
    ELSE (e :> [devices |-> <<>>]) @@ d

\* for device in devices_list: ... devices_dict[name] = device
\* device.get raises AttributeError on an entry that is not an object: the
\* loop ends there, with the entries before it already stored.
RECURSIVE MergeDevices(_, _, _)
MergeDevices(devices_dict, devices_list, updated_names) ==
    IF devices_list = <<>>
    THEN [devices |-> devices_dict, updated_names |-> updated_names, raised |-> FALSE]
    ELSE LET device == Head(devices_list) IN
         IF ~IsObject(device)
         THEN [devices |-> devices_dict, updated_names |-> updated_names,
               raised |-> TRUE]
         ELSE LET name == Get(device, "device_name") IN
              IF Falsy(name)
              THEN MergeDevices(devices_dict, Tail(devices_list), updated_names)
              ELSE MergeDevices(DictSet(devices_dict, name, device),
                                Tail(devices_list), Append(updated_names, name))

\* The whole of _update_state(hass, entry_id, payload): the new hass.data,
\* whether it raised, how many change signals it sent, and the device mapping
\* as it was when the signal was sent.
UpdateState(d, e, payload) ==
    LET parsed == JsonLoads(payload) IN
    IF ~parsed.ok
    THEN [data |-> d, raised |-> FALSE, signals |-> 0, seen |-> <<>>]
    ELSE LET d1 == StoreSetDefault(d, e)
             m == MergeDevices(d1[e].devices, DevicesList(parsed.value), <<>>)
             d2 == [d1 EXCEPT ![e].devices = m.devices]
         IN  IF m.raised
             THEN [data |-> d2, raised |-> TRUE, signals |-> 0, seen |-> <<>>]
             ELSE [data |-> d2, raised |-> FALSE, signals |-> 1,
                   seen |-> m.devices]

-----------------------------------------------------------------------------
(* History of the step taken last *)

Did(e, op) == [entry |-> e, op |-> op, payload |-> NoPayload, raised |-> FALSE,
               signals |-> 0, seen |-> <<>>, again |-> FALSE]

\* again: the step before was an apply of the same payload to the same entry
DidApply(e, payload, r) ==
    [entry |-> e, op |-> "apply", payload |-> payload, raised |-> r.raised,
     signals |-> r.signals, seen |-> r.seen,
     again |-> (last.op = "apply" /\ last.entry = e /\ last.payload = payload)]

-----------------------------------------------------------------------------
(* Change signal and discovery jobs *)

Workers == {"w1", "w2"}         \* executor threads that run discovery jobs

\* A discovery pass: where it is in _maybe_add_entities and its local
\* variables (configured_names, the dict iterator, the current device's
\* name and remaining candidates, new_entities).
IdlePass == [pc |-> "idle", cfg |-> {}, size |-> 0, idx |-> 0,
             name |-> "", dtype |-> "", rest |-> <<>>, new |-> <<>>]

\* A platform before its async_setup_entry has run
NoPlatform == [setup |-> FALSE, added |-> {}, emitted |-> {}, repeated |-> {},
               unordered |-> {},
               pass |-> [w \in Workers |-> IdlePass]]

IdleWorkers(p) == {w \in Workers : p.pass[w].pc = "idle"}

\* The executor has a thread for the job a signal starts
CanDispatch(p) == p.setup => IdleWorkers(p) # {}

\* async_dispatcher_send: the connected _maybe_add_entities, a plain function,
\* is submitted to the executor once per signal
DispatcherSend(p, signals) ==
    IF signals = 1 /\ p.setup /\ IdleWorkers(p) # {}
    THEN [p EXCEPT !.pass[CHOOSE w \in IdleWorkers(p) : TRUE].pc = "queued"]
    ELSE p

\* Variant of UpdateSignal with one signal name for all entries
UpdateSignalShared(e) == UPDATE_SIGNAL

\* update_signal = f"{UPDATE_SIGNAL}_{entry.entry_id}"
UpdateSignal(e) == UPDATE_SIGNAL \o "_" \o e

\* The platforms and entities of entry x are connected to the signal that
\* _update_state sends for entry e
Hears(x, e) == UpdateSignal(x) = UpdateSignal(e)

\* The signal of entry e reaches the platforms connected to its name
SendSignal(plats, e, signals) ==
    [x \in DOMAIN plats |->
        IF Hears(x, e) THEN DispatcherSend(plats[x], signals) ELSE plats[x]]

Range(seq) == {seq[i] : i \in 1..Len(seq)}

\* Python compares strings by code point: the characters of the model's
\* strings in that order
CodePoints == " -0123456789ABCDEFGHIJKLMNOPQRSTUVWXYZ_abcdefghijklmnopqrstuvwxyz"
Ord(c) == CHOOSE i \in 1..Len(CodePoints) : SubSeq(CodePoints, i, i) = c

\* s < t for strings, character by character: at the first place where they
\* differ s has the smaller character, or s ends there
Compare(s, t) ==
    \E i \in 1..Len(t) :
        /\ i <= Len(s) + 1
        /\ SubSeq(s, 1, i - 1) = SubSeq(t, 1, i - 1)
        /\ i <= Len(s) => Ord(SubSeq(s, i, i)) < Ord(SubSeq(t, i, i))

\* The attribute names of the model's devices
AttrNames == {"b-status", "load", "status", "xon_battery"}

\* The names of a set in ascending order: the smallest, then the rest
RECURSIVE Ascending(_)
Ascending(names) ==
    IF names = {} THEN <<>>
    ELSE LET least == CHOOSE s \in names : \A t \in names \ {s} : Compare(s, t)
         IN  <<least>> \o Ascending(names \ {least})

\* The attribute names of the model in sorted() order
LexOrder == Ascending(AttrNames)

\* s < t for attribute names
StrLess(s, t) ==
    \E i, j \in 1..Len(LexOrder) : i < j /\ LexOrder[i] = s /\ LexOrder[j] = t

\* sorted(keys), for the keys of a dict (no key twice, every key an attribute
\* name of the model): the names in ascending order that are among the keys
Sorted(keys) == SelectSeq(LexOrder, LAMBDA k : k \in Range(keys))

\* The order of a list of new entities: for each device the status sensor
\* before the attribute sensors, and these in ascending order of attribute
InOrder(new) ==
    \A i, j \in 1..Len(new) :
        (i < j /\ new[i].device_name = new[j].device_name) =>
            /\ new[j].cls # "UPSStatusSensor"
            /\ new[i].cls = "UPSAttributeSensor" =>
                  StrLess(new[i].attribute, new[j].attribute)

\* async_add_entities(new_entities): the entities handed to the entity layer
\* so far, those handed to it more than once, and the lists handed to it
\* that were not in order
AddEntities(p, new) ==
    [p EXCEPT !.emitted = @ \cup Range(new),
              !.repeated = @ \cup (Range(new) \cap p.emitted)
                             \cup {new[i] : i \in {j \in 1..Len(new) :
                                     \E k \in 1..Len(new) : k # j /\ new[k] = new[j]}},
              !.unordered = @ \cup (IF InOrder(new) THEN {} ELSE {new})]

\* for device_name, device in devices.items(): the iterator raises
\* RuntimeError when the dict has changed size since the loop began
IterNext(p, devices) ==
    IF Len(devices) # p.size THEN "raise"
    ELSE IF p.idx = p.size THEN "stop"
    ELSE "item"

\* Variant of Filtered without the allow-list
FilteredNever(cfg, device_name) == FALSE

\* if configured_names and device_name not in configured_names: continue
Filtered(cfg, device_name) == cfg # {} /\ device_name \notin cfg

\* Variant of LedgerAdd that keeps the new key alone
LedgerAddAlone(added, key) == {key}

\* added.add(key)
LedgerAdd(added, key) == added \cup {key}

-----------------------------------------------------------------------------
(* sensor.py: _maybe_add_entities *)

StatusSensor(device_name) ==
    [cls |-> "UPSStatusSensor", device_name |-> device_name, attribute |-> NoneVal]
AttributeSensor(device_name, attr_key) ==
    [cls |-> "UPSAttributeSensor", device_name |-> device_name, attribute |-> attr_key]

\* attrs = device.get("attributes") or {}
Attrs(device) == IF "attributes" \in DOMAIN device THEN device.attributes ELSE <<>>

\* attrs.keys(): the keys in the order of the dict
Keys(attrs) == [i \in 1..Len(attrs) |-> attrs[i].k]

\* Variant of SortedAttrs that goes through the keys in the order of the dict
UnsortedAttrs(device) == Keys(Attrs(device))

\* sorted(attrs.keys())
SortedAttrs(device) == Sorted(Keys(Attrs(device)))

StatusKey(device_name) == device_name \o "-status"
EntityKey(device_name, attr_key) == device_name \o "-" \o attr_key

\* One step of a pass q of the sensor platform p over the live devices dict.
\* The attributes of the current device are sorted when the device is taken
\* from the iterator: the device object does not change afterwards.
SensorStep(p, q, devices, configured_names) ==
    CASE q.pc = "queued" ->
            [p |-> p,
             q |-> [q EXCEPT !.pc = "next", !.cfg = configured_names,
                             !.size = Len(devices)]]
      [] q.pc = "next" ->
            [p |-> p,
             q |-> CASE IterNext(q, devices) = "raise" -> IdlePass
                     [] IterNext(q, devices) = "stop" -> [q EXCEPT !.pc = "emit"]
                     [] OTHER ->
                          LET item == devices[q.idx + 1] IN
                          IF Filtered(q.cfg, item.k)
                          THEN [q EXCEPT !.idx = @ + 1]
                          ELSE [q EXCEPT !.idx = @ + 1, !.pc = "status",
                                         !.name = item.k, !.rest = SortedAttrs(item.v)]]
      [] q.pc = "status" ->
            [p |-> p,
             q |-> IF StatusKey(q.name) \notin p.added
                   THEN [q EXCEPT !.pc = "add_status"]
                   ELSE [q EXCEPT !.pc = "attr"]]
      [] q.pc = "add_status" ->
            [p |-> [p EXCEPT !.added = LedgerAdd(@, StatusKey(q.name))],
             q |-> [q EXCEPT !.pc = "attr", !.new = Append(@, StatusSensor(q.name))]]
      [] q.pc = "attr" ->
            [p |-> p,
             q |-> IF q.rest = <<>> THEN [q EXCEPT !.pc = "next", !.name = ""]
                   ELSE IF EntityKey(q.name, Head(q.rest)) \in p.added
                   THEN [q EXCEPT !.rest = Tail(@)]
                   ELSE IF Head(q.rest) = "status"
                   THEN [q EXCEPT !.rest = Tail(@)]
                   ELSE [q EXCEPT !.pc = "add_attr"]]
      [] q.pc = "add_attr" ->
            [p |-> [p EXCEPT !.added = LedgerAdd(@, EntityKey(q.name, Head(q.rest)))],
             q |-> [q EXCEPT !.pc = "attr", !.rest = Tail(@),
                             !.new = Append(@, AttributeSensor(q.name, Head(q.rest)))]]
      [] q.pc = "emit" ->
            [p |-> IF q.new # <<>> THEN AddEntities(p, q.new) ELSE p,
             q |-> IdlePass]

\* _maybe_add_entities run from start to end without interruption
RECURSIVE RunSensorPass(_, _, _, _)
RunSensorPass(p, q, devices, configured_names) ==
    IF q.pc = "idle" THEN p
    ELSE LET r == SensorStep(p, q, devices, configured_names)
         IN  RunSensorPass(r.p, r.q, devices, configured_names)

\* store.get("devices", {}) and store.get("configured_names") or set()
StoreDevices(d, e) ==
    IF e \in DOMAIN d /\ "devices" \in DOMAIN d[e] THEN d[e].devices ELSE <<>>
StoreConfigured(d, e) ==
    IF e \in DOMAIN d /\ "configured_names" \in DOMAIN d[e]
    THEN d[e].configured_names ELSE {}

\* Variant of SensorSetup that connects to the dispatcher without the initial pass
SensorSetupLazy(e) ==
    /\ life[e].state = "loaded" /\ ~sensor[e].setup
    /\ sensor' = [sensor EXCEPT ![e] = [NoPlatform EXCEPT !.setup = TRUE]]
    /\ last' = Did(e, "sensor_setup")
    /\ UNCHANGED <<data, rt, life, button, entity, calls>>

\* sensor.py async_setup_entry: added = set(), the initial pass, then the
\* connection to the dispatcher; one stretch of the event loop
SensorSetup(e) ==
    /\ life[e].state = "loaded" /\ ~sensor[e].setup
    /\ sensor' = [sensor EXCEPT ![e] =
                    [RunSensorPass(NoPlatform, [IdlePass EXCEPT !.pc = "queued"],
                                   StoreDevices(data, e), StoreConfigured(data, e))
                       EXCEPT !.setup = TRUE]]
    /\ last' = Did(e, "sensor_setup")
    /\ UNCHANGED <<data, rt, life, button, entity, calls>>

\* A worker thread advances the pass it runs by one step
SensorWork(e, w) ==
    /\ sensor[e].pass[w].pc # "idle"
    /\ LET r == SensorStep(sensor[e], sensor[e].pass[w],
                           StoreDevices(data, e), StoreConfigured(data, e))
       IN  sensor' = [sensor EXCEPT ![e] = [r.p EXCEPT !.pass[w] = r.q]]
    /\ last' = Did(e, "sensor_pass")
    /\ UNCHANGED <<data, rt, life, button, entity, calls>>

-----------------------------------------------------------------------------
(* sensor.py: UPSStatusSensor and UPSAttributeSensor; helpers.py *)

\* str.lower(), one character at a time
UpperCase == "ABCDEFGHIJKLMNOPQRSTUVWXYZ"
LowerCase == "abcdefghijklmnopqrstuvwxyz"
LowerChar(c) ==
    IF \E i \in 1..Len(UpperCase) : SubSeq(UpperCase, i, i) = c
    THEN LET i == CHOOSE i \in 1..Len(UpperCase) : SubSeq(UpperCase, i, i) = c
         IN  SubSeq(LowerCase, i, i)
    ELSE c
RECURSIVE LowerText(_)
LowerText(s) ==
    IF Len(s) = 0 THEN ""
    ELSE LowerChar(SubSeq(s, 1, 1)) \o LowerText(SubSeq(s, 2, Len(s)))

\* The texts the devices report under "status" and "xon_battery", and the
\* default "" of attrs.get; each is lowered once
ReportedTexts == {"", "OL", "OB", "ONBATT", "ONLINE NOBATT", "0", "1"}
Lowered == [s \in ReportedTexts |-> LowerText(s)]
Lower(s) == Lowered[s]

\* token in text
Contains(token, text) ==
    \E i \in 1..Len(text) :
        /\ i + Len(token) - 1 <= Len(text)
        /\ SubSeq(text, i, i + Len(token) - 1) = token

\* attrs.get(key, default)
AttrGet(attrs, key, default) ==
    IF DictHas(attrs, key) THEN DictValue(attrs, key) ELSE default

OnBatteryTokens == {"onbatt", "on battery", "ob", "on_battery"}
XonTexts == {"1", "true", "yes"}

\* store.get("devices", {}).get(device_name): None when the store or the
\* device is not there
NoDevice == [none |-> "device"]
GetDevice(d, e, device_name) ==
    IF DictHas(StoreDevices(d, e), device_name)
    THEN DictValue(StoreDevices(d, e), device_name)
    ELSE NoDevice

GetUpsStatus(device) ==
    IF device = NoDevice THEN "offline"
    ELSE LET attrs == Attrs(device)
             status_raw == Lower(AttrGet(attrs, "status", ""))
             xon == Lower(AttrGet(attrs, "xon_battery", ""))
             on_battery ==
                 \/ \E token \in OnBatteryTokens : Contains(token, status_raw)
                 \/ xon \in XonTexts
         IN  IF on_battery THEN "On Battery" ELSE "Online"

\* normalize_attribute_value: None stays None, the durations and the numeric
\* attributes are converted, every other attribute keeps its value
DurationAttrs == {"time_left", "time_on_battery"}
NumericAttrs ==
    {"battery_charge", "load_percentage", "input_voltage", "output_voltage",
     "battery_voltage", "internal_temperature", "real_power",
     "input_frequency", "output_frequency", "battery_current"}
NormalizeAttributeValue(attribute, value) ==
    IF value = NoneVal THEN NoneVal
    ELSE IF attribute = "time_left" THEN [minutes_of |-> value]
    ELSE IF attribute \in DurationAttrs \cup NumericAttrs THEN [float_of |-> value]
    ELSE value

\* An entity object: Entity._attr_available is True and _attr_native_value is
\* None until a handler sets them.  job: a _handle_update started by the
\* dispatcher that has not run yet; write: an async_write_ha_state handed to
\* the event loop by hass.add_job; state: what the state machine shows;
\* trigger: the payload whose change signal started the latest job.
NoState == "<none>"
NoEntity ==
    [added |-> FALSE, available |-> TRUE, native_value |-> NoneVal,
     job |-> FALSE, write |-> FALSE, state |-> NoState, trigger |-> NoPayload]

\* The entities followed after their discovery
Followed == {StatusSensor("a"), AttributeSensor("a", "load")}

\* UPSStatusSensor._handle_update
StatusHandleUpdate(ent, device) ==
    [ent EXCEPT !.available = (device # NoDevice),
                !.native_value = GetUpsStatus(device),
                !.write = TRUE]

\* UPSAttributeSensor._handle_update
AttributeHandleUpdate(ent, attribute, device) ==
    IF device = NoDevice
    THEN [ent EXCEPT !.available = FALSE, !.write = TRUE]
    ELSE [ent EXCEPT !.available = TRUE,
                     !.native_value =
                         NormalizeAttributeValue(
                             attribute, AttrGet(Attrs(device), attribute, NoneVal)),
                     !.write = TRUE]

HandleUpdate(ent, x, device) ==
    IF x.cls = "UPSStatusSensor"
    THEN StatusHandleUpdate(ent, device)
    ELSE AttributeHandleUpdate(ent, x.attribute, device)

\* The state written by async_write_ha_state: "unavailable" for an entity
\* that is not available, "unknown" for a value of None
StateOf(ent) ==
    IF ~ent.available THEN "unavailable"
    ELSE IF ent.native_value = NoneVal THEN "unknown"
    ELSE ent.native_value

\* async_dispatcher_send reaches every entity that has subscribed: each gets
\* an executor job for its _handle_update (a plain function)
DispatchEntities(ents, signals, payload) ==
    IF signals = 0 THEN ents
    ELSE [x \in Followed |->
            IF ents[x].added
            THEN [ents[x] EXCEPT !.job = TRUE, !.trigger = payload]
            ELSE ents[x]]

\* The signal of entry e reaches the entities connected to its name
SendEntities(ents, e, signals, payload) ==
    [x \in DOMAIN ents |->
        IF Hears(x, e) THEN DispatchEntities(ents[x], signals, payload) ELSE ents[x]]

\* The host adds an entity that a discovery pass handed to async_add_entities:
\* async_added_to_hass subscribes and calls _handle_update, and the host
\* writes the first state
EntityAdded(e, x) ==
    /\ life[e].state = "loaded"
    /\ x \in sensor[e].emitted
    /\ ~entity[e][x].added
    /\ LET ent == HandleUpdate([entity[e][x] EXCEPT !.added = TRUE], x,
                               GetDevice(data, e, x.device_name))
       IN  entity' = [entity EXCEPT ![e][x] = [ent EXCEPT !.state = StateOf(ent)]]
    /\ last' = Did(e, "entity_added")
    /\ UNCHANGED <<data, rt, life, sensor, button, calls>>

\* A worker thread runs _handle_update
EntityUpdate(e, x) ==
    /\ entity[e][x].job
    /\ entity' = [entity EXCEPT ![e][x] =
                     HandleUpdate([@ EXCEPT !.job = FALSE], x,
                                  GetDevice(data, e, x.device_name))]
    /\ last' = Did(e, "entity_update")
    /\ UNCHANGED <<data, rt, life, sensor, button, calls>>

\* The event loop runs async_write_ha_state
EntityWrite(e, x) ==
    /\ entity[e][x].write
    /\ entity' = [entity EXCEPT ![e][x] =
                     [@ EXCEPT !.write = FALSE, !.state = StateOf(entity[e][x])]]
    /\ last' = Did(e, "entity_write")
    /\ UNCHANGED <<data, rt, life, sensor, button, calls>>

-----------------------------------------------------------------------------
(* button.py: BUTTON_DESCRIPTIONS and _maybe_add_entities *)

MaxButtons == 2         \* descriptions of BUTTON_DESCRIPTIONS a pass goes through

BUTTON_DESCRIPTIONS == <<
    [key |-> "beeper_enable", command |-> "beeper.enable", device_types |-> {"nut"}],
    [key |-> "beeper_disable", command |-> "beeper.disable", device_types |-> {"nut"}],
    [key |-> "beeper_mute", command |-> "beeper.mute", device_types |-> {"nut"}],
    [key |-> "test_battery_start", command |-> "test.battery.start",
     device_types |-> {"nut"}],
    [key |-> "test_battery_stop", command |-> "test.battery.stop",
     device_types |-> {"nut"}],
    [key |-> "load_off", command |-> "load.off", device_types |-> {"nut"}],
    [key |-> "load_on", command |-> "load.on", device_types |-> {"nut"}] >>

Descriptions ==
    SubSeq(BUTTON_DESCRIPTIONS, 1,
           IF MaxButtons < Len(BUTTON_DESCRIPTIONS) THEN MaxButtons
           ELSE Len(BUTTON_DESCRIPTIONS))

CommandButton(device_name, desc) ==
    [cls |-> "UPSCommandButton", device_name |-> device_name, attribute |-> desc.key]

\* Variant of DeviceType that takes every device for a nut device
DeviceTypeAlwaysNut(device) == "nut"

\* device_type = device.get("type", "nut")
DeviceType(device) == IF "type" \in DOMAIN device THEN device.type ELSE "nut"

ButtonKey(e, device_name, desc) == e \o "-" \o device_name \o "-" \o desc.key

\* One step of a pass q of the button platform p over the live devices dict
ButtonStep(e, p, q, devices, configured_names) ==
    CASE q.pc = "queued" ->
            [p |-> p,
             q |-> [q EXCEPT !.pc = "next", !.cfg = configured_names,
                             !.size = Len(devices)]]
      [] q.pc = "next" ->
            [p |-> p,
             q |-> CASE IterNext(q, devices) = "raise" -> IdlePass
                     [] IterNext(q, devices) = "stop" -> [q EXCEPT !.pc = "emit"]
                     [] OTHER ->
                          LET item == devices[q.idx + 1] IN
                          IF Filtered(q.cfg, item.k)
                          THEN [q EXCEPT !.idx = @ + 1]
                          ELSE [q EXCEPT !.idx = @ + 1, !.pc = "desc",
                                         !.name = item.k, !.dtype = DeviceType(item.v),
                                         !.rest = Descriptions]]
      [] q.pc = "desc" ->
            [p |-> p,
             q |-> IF q.rest = <<>>
                   THEN [q EXCEPT !.pc = "next", !.name = "", !.dtype = ""]
                   ELSE IF q.dtype \notin Head(q.rest).device_types
                   THEN [q EXCEPT !.rest = Tail(@)]
                   ELSE IF ButtonKey(e, q.name, Head(q.rest)) \in p.added
                   THEN [q EXCEPT !.rest = Tail(@)]
                   ELSE [q EXCEPT !.pc = "add"]]
      [] q.pc = "add" ->
            [p |-> [p EXCEPT !.added = LedgerAdd(@, ButtonKey(e, q.name, Head(q.rest)))],
             q |-> [q EXCEPT !.pc = "desc", !.rest = Tail(@),
                             !.new = Append(@, CommandButton(q.name, Head(q.rest)))]]
      [] q.pc = "emit" ->
            [p |-> IF q.new # <<>> THEN AddEntities(p, q.new) ELSE p,
             q |-> IdlePass]

RECURSIVE RunButtonPass(_, _, _, _, _)
RunButtonPass(e, p, q, devices, configured_names) ==
    IF q.pc = "idle" THEN p
    ELSE LET r == ButtonStep(e, p, q, devices, configured_names)
         IN  RunButtonPass(e, r.p, r.q, devices, configured_names)

\* button.py async_setup_entry: added = set(), the initial pass, then the
\* connection to the dispatcher; one stretch of the event loop
ButtonSetup(e) ==
    /\ life[e].state = "loaded" /\ ~button[e].setup
    /\ button' = [button EXCEPT ![e] =
                    [RunButtonPass(e, NoPlatform, [IdlePass EXCEPT !.pc = "queued"],
                                   StoreDevices(data, e), StoreConfigured(data, e))
                       EXCEPT !.setup = TRUE]]
    /\ last' = Did(e, "button_setup")
    /\ UNCHANGED <<data, rt, life, sensor, entity, calls>>

\* A worker thread advances the pass it runs by one step
ButtonWork(e, w) ==
    /\ button[e].pass[w].pc # "idle"
    /\ LET r == ButtonStep(e, button[e], button[e].pass[w],
                           StoreDevices(data, e), StoreConfigured(data, e))
       IN  button' = [button EXCEPT ![e] = [r.p EXCEPT !.pass[w] = r.q]]
    /\ last' = Did(e, "button_pass")
    /\ UNCHANGED <<data, rt, life, sensor, entity, calls>>

-----------------------------------------------------------------------------
(* _listen_ws: the listener task *)

\* while not stop_event.is_set()
LoopCondition(e) == ~rt[e].stop_event

\* Variant of SleepDelay one second short
SleepDelayShort == RECONNECT_DELAY - 1

\* if not stop_event.is_set(): await asyncio.sleep(RECONNECT_DELAY)
SleepDelay == RECONNECT_DELAY

\* A step of the task is taken only when no cancellation is pending: a
\* cancelled task is resumed with CancelledError instead (TaskCancelled).
Runnable(e) == rt[e].task # "done" /\ ~rt[e].must_cancel

\* Variant of LoopTop that gives up after the first connection
LoopTopNoRetry(e, r) ==
    IF ~rt[e].stop_event /\ r.task = "created"
    THEN [r EXCEPT !.task = "connecting"]
    ELSE [r EXCEPT !.task = "done", !.ended = "returned"]

\* Top of the loop: connect again, or leave the loop.
LoopTop(e, r) ==
    IF LoopCondition(e)
    THEN [r EXCEPT !.task = "connecting"]
    ELSE [r EXCEPT !.task = "done", !.ended = "returned"]

\* Variant of AfterTry that leaves the loop after any exception
AfterTryGivesUp(e, r) == [r EXCEPT !.task = "done", !.ended = "returned"]

\* After the try block: sleep unless stopped, then the top of the loop.
AfterTry(e, r) ==
    IF ~rt[e].stop_event
    THEN [r EXCEPT !.task = "sleeping", !.timer = SleepDelay, !.waited = 0]
    ELSE LoopTop(e, r)

\* First run of the task created by hass.loop.create_task
TaskStart(e) ==
    /\ Runnable(e) /\ rt[e].task = "created"
    /\ rt' = [rt EXCEPT ![e] = LoopTop(e, @)]
    /\ last' = Did(e, IF LoopCondition(e) THEN "connect" ELSE "exit")
    /\ UNCHANGED <<data, life, plat, calls>>

\* websockets.connect succeeds: the async for loop waits for a message
ConnectOk(e) ==
    /\ Runnable(e) /\ rt[e].task = "connecting"
    /\ rt' = [rt EXCEPT ![e].task = "connected", ![e].ws = "open"]
    /\ last' = Did(e, "connected")
    /\ UNCHANGED <<data, life, plat, calls>>

\* websockets.connect raises: except Exception, then the sleep
ConnectFail(e) ==
    /\ Runnable(e) /\ rt[e].task = "connecting"
    /\ rt' = [rt EXCEPT ![e] = AfterTry(e, @)]
    /\ last' = Did(e, "connect_failed")
    /\ UNCHANGED <<data, life, plat, calls>>

\* A message arrives: _update_state(hass, entry_id, message).  An exception
\* it raises leaves the async with block (the socket is closed) and is
\* handled by except Exception.
Receive(e, payload) ==
    /\ Runnable(e) /\ rt[e].task = "connected"
    /\ LET r == UpdateState(data, e, payload) IN
       /\ data' = r.data
       /\ rt' = IF r.raised
                THEN [rt EXCEPT ![e] = AfterTry(e, [@ EXCEPT !.ws = "closed"])]
                ELSE rt
       /\ r.signals = 1 =>
             \A x \in DOMAIN sensor :
                Hears(x, e) => CanDispatch(sensor[x]) /\ CanDispatch(button[x])
       /\ sensor' = SendSignal(sensor, e, r.signals)
       /\ button' = SendSignal(button, e, r.signals)
       /\ entity' = SendEntities(entity, e, r.signals, payload)
       /\ last' = DidApply(e, payload, r)
    /\ UNCHANGED <<life, calls>>

\* The connection is lost while waiting for a message: a clean close ends
\* the async for loop, an error close raises ConnectionClosedError, anything
\* else is caught by except Exception.
DropKinds == {"closed_ok", "closed_error", "dropped"}

Drop(e, kind) ==
    /\ Runnable(e) /\ rt[e].task = "connected"
    /\ rt' = [rt EXCEPT ![e] = AfterTry(e, [@ EXCEPT !.ws = "closed"])]
    /\ last' = Did(e, kind)
    /\ UNCHANGED <<data, life, plat, calls>>

\* One second of asyncio.sleep(RECONNECT_DELAY) passes
Tick(e) ==
    /\ Runnable(e) /\ rt[e].task = "sleeping" /\ rt[e].timer > 0
    /\ rt' = [rt EXCEPT ![e].timer = @ - 1, ![e].waited = @ + 1]
    /\ last' = Did(e, "tick")
    /\ UNCHANGED <<data, life, plat, calls>>

\* The sleep is over: back to the top of the loop
Wake(e) ==
    /\ Runnable(e) /\ rt[e].task = "sleeping" /\ rt[e].timer = 0
    /\ rt' = [rt EXCEPT ![e] = LoopTop(e, @)]
    /\ last' = Did(e, IF LoopCondition(e) THEN "connect" ELSE "exit")
    /\ UNCHANGED <<data, life, plat, calls>>

\* Variant of TaskCancelled that ends the task and leaves the socket open
TaskCancelledLeak(e) ==
    /\ rt[e].task # "done" /\ rt[e].must_cancel
    /\ rt' = [rt EXCEPT ![e].task = "done", ![e].must_cancel = FALSE,
                        ![e].ended = "cancelled"]
    /\ last' = Did(e, "cancelled")
    /\ UNCHANGED <<data, life, plat, calls>>

\* The cancelled task is resumed with CancelledError: it propagates out of
\* connect, of the async for (closing the socket) or of the sleep, and the
\* task ends.
TaskCancelled(e) ==
    /\ rt[e].task # "done" /\ rt[e].must_cancel
    /\ rt' = [rt EXCEPT ![e].task = "done", ![e].must_cancel = FALSE,
                        ![e].ended = "cancelled",
                        ![e].ws = IF @ = "open" THEN "closed" ELSE @]
    /\ last' = Did(e, "cancelled")
    /\ UNCHANGED <<data, life, plat, calls>>

-----------------------------------------------------------------------------
(* Stop handlers *)

\* Variant of StopSignal that sets the event and does not cancel the task
StopSignalNoCancel(r) == [r EXCEPT !.stop_event = TRUE]

\* stop_event.set(); task.cancel()
StopSignal(r) ==
    [r EXCEPT !.stop_event = TRUE,
              !.must_cancel = IF r.task = "done" THEN @ ELSE TRUE]

\* await task: the exception the awaiting handler is resumed with, for a task
\* that has ended by returning or by its cancellation
AwaitTask(r) == IF r.ended = "cancelled" THEN "CancelledError" ELSE "none"

\* Variant of Suppress that suppresses nothing
SuppressNothing(exc) == exc

\* with contextlib.suppress(asyncio.CancelledError)
Suppress(exc) == IF exc = "CancelledError" THEN "none" ELSE exc

\* The handler raises in this step: its await of a task that has ended
\* resumes at once with what Suppress lets through
StopRaises(r) == r.task = "done" /\ Suppress(AwaitTask(r)) # "none"

\* _stop_ws, listening once for EVENT_HOMEASSISTANT_STOP
HostStop(e) ==
    /\ ~life[e].host_stopped
    /\ rt' = [rt EXCEPT ![e] = StopSignal(@)]
    /\ life' = [life EXCEPT ![e].host_stopped = TRUE]
    /\ last' = [Did(e, "stop") EXCEPT !.raised = StopRaises(rt[e])]
    /\ UNCHANGED <<data, plat, calls>>

\* async_unload_entry up to "await runtime['task']"
UnloadStop(e) ==
    /\ life[e].state = "loaded"
    /\ rt' = [rt EXCEPT ![e] = StopSignal(@)]
    /\ life' = [life EXCEPT ![e].state = "unloading"]
    /\ last' = [Did(e, "stop") EXCEPT !.raised = StopRaises(rt[e])]
    /\ UNCHANGED <<data, plat, calls>>

\* Variant of TaskEnded that goes on once the cancellation is requested
TaskEndedOrCancelling(r) == r.task = "done" \/ r.must_cancel

\* Variant of TaskEnded that does not wait for the task
TaskEndedNoWait(r) == TRUE

\* await runtime["task"] returns or raises: the task has ended
TaskEnded(r) == r.task = "done"

\* async_unload_entry after the task has ended: the store entry is popped
UnloadFinish(e) ==
    /\ life[e].state = "unloading" /\ TaskEnded(rt[e])
    /\ data' = [x \in DOMAIN data \ {e} |-> data[x]]
    /\ life' = [life EXCEPT ![e].state = "unloaded"]
    /\ last' = [Did(e, "unloaded") EXCEPT
                   !.raised = Suppress(AwaitTask(rt[e])) # "none"]
    /\ UNCHANGED <<rt, plat, calls>>

-----------------------------------------------------------------------------
(* The connection: store, listener and stop handlers *)

\* async_setup_entry up to the creation of the listener task, with no seed data
InitStore(cfg) == [devices |-> <<>>, configured_names |-> cfg]

InitRuntime == [stop_event |-> FALSE, task |-> "created", must_cancel |-> FALSE,
                ended |-> "none", ws |-> "none", timer |-> 0, waited |-> 0,
                orphans |-> 0]

\* The task of a runtime has been created and has not ended
Live(r) == r.task \notin {"none", "done"}

\* task = hass.loop.create_task(_listen_ws(...)); store["runtime"] = {...}:
\* the runtime of the entry is replaced, and a task of the earlier runtime
\* that has not ended runs on with nothing in the store that refers to it
CreateTask(r) ==
    [InitRuntime EXCEPT !.orphans = r.orphans + (IF Live(r) THEN 1 ELSE 0)]

-----------------------------------------------------------------------------
(* config_flow.py: UPSMonitorOptionsFlow, add_device and reconfigure_device *)

FlowIds == {"f1", "f2"}         \* options flows open for the entry at a time
NameInputs == {"a", "b"}        \* device names typed into the forms

\* An options flow at its menu: nothing pending, nothing selected
NoFlow == [step |-> "init", input |-> NoneVal, pending |-> NoneVal,
           selected |-> NoneVal, devices |-> <<>>, errors |-> "none"]

\* any(d.get("device_name") == name for d in devices)
Configured(devices, name) == \E i \in 1..Len(devices) : devices[i] = name

\* History of a form submitted: the flow and the name typed
DidForm(f, op, name) ==
    [Did("e1", op) EXCEPT !.payload = [kind |-> "form", flow |-> f, name |-> name]]

\* Menu choice add_device: the form is shown
ShowAddDevice(f) ==
    /\ flow[f].step = "init"
    /\ flow' = [flow EXCEPT ![f].step = "add_device"]
    /\ last' = Did("e1", "show_add_device")
    /\ UNCHANGED <<data, rt, life, plat, seed, press, http, options>>

\* async_step_add_device(user_input) up to its await: the name is refused
\* when a configured device has it, else the connection test is sent
AddDeviceSubmit(f, name) ==
    /\ flow[f].step = "add_device"
    /\ flow' = [flow EXCEPT ![f] =
                  IF Configured(options, name)
                  THEN [@ EXCEPT !.input = name, !.errors = "already_configured"]
                  ELSE [@ EXCEPT !.input = name, !.errors = "none",
                                 !.step = "add_testing"]]
    /\ last' = DidForm(f, "add_device", name)
    /\ UNCHANGED <<data, rt, life, plat, seed, press, http, options>>

\* _async_test_device_and_get_attributes returns: None shows the form again,
\* a list stores the pending device and shows the attribute selection
AddDeviceTested(f, ok) ==
    /\ flow[f].step = "add_testing"
    /\ flow' = [flow EXCEPT ![f] =
                  IF ok
                  THEN [@ EXCEPT !.pending = flow[f].input,
                                 !.step = "select_attributes"]
                  ELSE [@ EXCEPT !.errors = "cannot_connect", !.step = "add_device"]]
    /\ last' = Did("e1", "add_tested")
    /\ UNCHANGED <<data, rt, life, plat, seed, press, http, options>>

\* async_step_select_attributes(user_input) up to its await: the device is
\* sent to the server
SelectAttributesSubmit(f) ==
    /\ flow[f].step = "select_attributes" /\ flow[f].pending # NoneVal
    /\ flow' = [flow EXCEPT ![f].step = "select_registering", ![f].errors = "none"]
    /\ last' = Did("e1", "select_attributes")
    /\ UNCHANGED <<data, rt, life, plat, seed, press, http, options>>

\* _async_register_device returns: on success the device is appended to the
\* devices of the entry's options as they are now, and the flow ends
SelectAttributesRegistered(f, ok) ==
    /\ flow[f].step = "select_registering"
    /\ ok => Len(options) < MaxDevices
    /\ IF ok
       THEN /\ options' = Append(options, flow[f].pending)
            /\ flow' = [flow EXCEPT ![f].pending = NoneVal, ![f].step = "done"]
       ELSE /\ options' = options
            /\ flow' = [flow EXCEPT ![f].errors = "cannot_connect",
                                    ![f].step = "select_attributes"]
    /\ last' = Did("e1", "added_device")
    /\ UNCHANGED <<data, rt, life, plat, seed, press, http>>

\* async_step_reconfigure_device: no device aborts; the device picked in the
\* form becomes _device_to_reconfigure and the update form is shown
ReconfigureDevice(f, name) ==
    /\ flow[f].step = "init"
    /\ options # <<>> => Configured(options, name)
    /\ flow' = [flow EXCEPT ![f] =
                  IF options = <<>>
                  THEN [@ EXCEPT !.step = "aborted", !.errors = "no_devices"]
                  ELSE [@ EXCEPT !.selected = name,
                                 !.step = "reconfigure_device_update"]]
    /\ last' = Did("e1", "reconfigure_device")
    /\ UNCHANGED <<data, rt, life, plat, seed, press, http, options>>

\* The devices after the update: the new name in the place of the old one
Renamed(devices, old_name, new_name) ==
    [i \in 1..Len(devices) |-> IF devices[i] = old_name THEN new_name ELSE devices[i]]

\* async_step_reconfigure_device_update(user_input) up to its await: the
\* devices are read, a new name that a configured device has is refused,
\* else the device is sent to the server
ReconfigureSubmit(f, new_name) ==
    /\ flow[f].step = "reconfigure_device_update"
    /\ flow' = [flow EXCEPT ![f] =
                  IF new_name # flow[f].selected /\ Configured(options, new_name)
                  THEN [@ EXCEPT !.input = new_name, !.errors = "already_configured"]
                  ELSE [@ EXCEPT !.input = new_name, !.errors = "none",
                                 !.devices = options,
                                 !.step = "update_registering"]]
    /\ last' = DidForm(f, "reconfigure_submit", new_name)
    /\ UNCHANGED <<data, rt, life, plat, seed, press, http, options>>

\* _async_register_device returns: a failure shows the form again; a new
\* name has the old one deleted on the server first; the same name is
\* written at once, into the devices read before the await
ReconfigureRegistered(f, ok) ==
    /\ flow[f].step = "update_registering"
    /\ IF ~ok
       THEN /\ options' = options
            /\ flow' = [flow EXCEPT ![f].errors = "cannot_connect",
                                    ![f].step = "reconfigure_device_update"]
       ELSE IF flow[f].input # flow[f].selected
       THEN /\ options' = options
            /\ flow' = [flow EXCEPT ![f].step = "update_deleting"]
       ELSE /\ options' = Renamed(flow[f].devices, flow[f].selected, flow[f].input)
            /\ flow' = [flow EXCEPT ![f].step = "done"]
    /\ last' = Did("e1", "reconfigure_registered")
    /\ UNCHANGED <<data, rt, life, plat, seed, press, http>>

\* _async_delete_device returns: a failure shows the form again, a success
\* writes the devices read before the awaits with the new name
ReconfigureDeleted(f, ok) ==
    /\ flow[f].step = "update_deleting"
    /\ IF ok
       THEN /\ options' = Renamed(flow[f].devices, flow[f].selected, flow[f].input)
            /\ flow' = [flow EXCEPT ![f].step = "done"]
       ELSE /\ options' = options
            /\ flow' = [flow EXCEPT ![f].errors = "cannot_connect",
                                    ![f].step = "reconfigure_device_update"]
    /\ last' = Did("e1", "reconfigure_deleted")
    /\ UNCHANGED <<data, rt, life, plat, seed, press, http>>

\* The flow has ended; the options are opened again
FlowOpen(f) ==
    /\ flow[f].step \in {"done", "aborted"}
    /\ flow' = [flow EXCEPT ![f] = NoFlow]
    /\ last' = Did("e1", "flow_open")
    /\ UNCHANGED <<data, rt, life, plat, seed, press, http, options>>

-----------------------------------------------------------------------------
(* helpers.py build_http_url; _fetch_initial_status; the seed loop of
   async_setup_entry *)

max_retries == 3        \* fetch attempts of the seed loop
SeedSleepDelay == 1     \* asyncio.sleep(1.0) between two attempts

\* A URL as urlparse splits it: scheme, netloc, path
ServerUrl == [scheme |-> "ws", netloc |-> "ups:8080", path |-> "/ws"]
EmptyUrl == [scheme |-> "", netloc |-> "", path |-> ""]
NoneUrl == [scheme |-> NoneVal, netloc |-> NoneVal, path |-> NoneVal]

\* build_http_url(server_url, path): ws -> http, wss -> https, http and https
\* kept, any other scheme refused; netloc kept, path replaced
BuildHttpUrl(server_url, path) ==
    IF server_url = EmptyUrl THEN NoneUrl
    ELSE IF server_url.scheme \in {"ws", "wss"}
    THEN [scheme |-> IF server_url.scheme = "ws" THEN "http" ELSE "https",
          netloc |-> server_url.netloc, path |-> path]
    ELSE IF server_url.scheme \notin {"http", "https"} THEN NoneUrl
    ELSE [scheme |-> server_url.scheme, netloc |-> server_url.netloc, path |-> path]

\* The first position in text of a character of chars, Len(text) + 1 if none
IndexOf(text, chars) ==
    IF \E i \in 1..Len(text) : SubSeq(text, i, i) \in chars
    THEN CHOOSE i \in 1..Len(text) :
            /\ SubSeq(text, i, i) \in chars
            /\ \A j \in 1..(i-1) : SubSeq(text, j, j) \notin chars
    ELSE Len(text) + 1

\* text[i:]
From(text, i) == IF i > Len(text) THEN "" ELSE SubSeq(text, i, Len(text))

\* urllib.parse: the characters of a scheme
SchemeChars == "abcdefghijklmnopqrstuvwxyzABCDEFGHIJKLMNOPQRSTUVWXYZ0123456789+-."
IsSchemeChar(c) == \E i \in 1..Len(SchemeChars) : SubSeq(SchemeChars, i, i) = c

\* urlparse(text): the scheme is the text before the first colon, in lower
\* case, when it is made of scheme characters; the netloc follows "//" up to
\* the next "/", "?" or "#"; the path ends at "?" or "#"
UrlParse(text) ==
    LET colon == IndexOf(text, {":"})
        has_scheme ==
            /\ 1 < colon /\ colon <= Len(text)
            /\ \A i \in 1..(colon-1) : IsSchemeChar(SubSeq(text, i, i))
        after == IF has_scheme THEN From(text, colon + 1) ELSE text
        has_netloc == Len(after) >= 2 /\ SubSeq(after, 1, 2) = "//"
        rest == IF has_netloc THEN From(after, 3) ELSE after
        stop == IF has_netloc THEN IndexOf(rest, {"/", "?", "#"}) ELSE 1
        tail == From(rest, stop)
    IN  [scheme |-> IF has_scheme THEN LowerText(SubSeq(text, 1, colon - 1)) ELSE "",
         netloc |-> IF has_netloc THEN SubSeq(rest, 1, stop - 1) ELSE "",
         path |-> SubSeq(tail, 1, IndexOf(tail, {"?", "#"}) - 1)]

\* urlunparse((scheme, netloc, path, "", "", "")): "//" and the netloc are
\* written for a netloc or a scheme that uses one, a path that does not start
\* with "/" gets one, and the scheme goes in front
UsesNetloc == {"http", "https", "ws", "wss", "ftp"}
UrlUnparse(url) ==
    LET slashed ==
            IF url.path # "" /\ SubSeq(url.path, 1, 1) # "/"
            THEN "/" \o url.path ELSE url.path
        with_netloc ==
            \/ url.netloc # ""
            \/ /\ url.scheme \in UsesNetloc
               /\ ~(Len(url.path) >= 2 /\ SubSeq(url.path, 1, 2) = "//")
        body == IF with_netloc THEN "//" \o url.netloc \o slashed ELSE url.path
    IN  IF url.scheme # "" THEN url.scheme \o ":" \o body ELSE body

\* Variant of BuildHttpUrlText that keeps the path of the address given
BuildHttpUrlKeepPath(server_url, path) ==
    LET built == BuildHttpUrl(UrlParse(server_url), UrlParse(server_url).path)
    IN  IF built = NoneUrl THEN NoneVal ELSE UrlUnparse(built)

\* build_http_url on the text of an address: None, or the text of the URL
BuildHttpUrlText(server_url, path) ==
    LET built == BuildHttpUrl(UrlParse(server_url), path)
    IN  IF built = NoneUrl THEN NoneVal ELSE UrlUnparse(built)

\* The addresses build_http_url is given: a scheme, "://", a netloc and what
\* follows it; the empty text; a host and port without a scheme
Schemes == {"ws", "wss", "http", "https", "WSS", "ftp", "mqtt"}
Netlocs == {"ups:8080", "ups", "10.0.0.5:8080"}
Rests == {"", "/", "/ws", "/ws?token=1"}
Addresses ==
    {[scheme |-> sc, netloc |-> n, text |-> sc \o "://" \o n \o r] :
        sc \in Schemes, n \in Netlocs, r \in Rests}
      \cup {[scheme |-> "", netloc |-> "", text |-> t] : t \in {"", "ups:8080/ws"}}
\* The paths the program asks for (__init__.py lines 106 and 163)
AskedPaths == {"", "/api/status"}

NoDerivation == [pc |-> "none"]

\* build_http_url(server_url, path) is called
Derive(e) ==
    /\ http.pc = "given"
    /\ http' = [http EXCEPT !.pc = "derived",
                            !.url = BuildHttpUrlText(http.given.text, http.path)]
    /\ last' = Did(e, "derive")
    /\ UNCHANGED <<data, rt, life, plat, seed, press, conf>>

\* build_http_url is called on the URL it returned
DeriveAgain(e) ==
    /\ http.pc = "derived" /\ http.url # NoneVal
    /\ http' = [http EXCEPT !.pc = "again",
                            !.again = BuildHttpUrlText(http.url, http.path)]
    /\ last' = Did(e, "derive_again")
    /\ UNCHANGED <<data, rt, life, plat, seed, press, conf>>

\* What one GET /api/status comes to: a timeout, a transport error, a status
\* other than 200, a 200 whose body is not JSON, or a 200 with a JSON body
SeedBodies ==
    {ListPayload(<<>>), ListPayload(<<DevA1>>), ListPayload(<<DevA1, DevB1>>),
     ListPayload(<<Unnamed>>), ListPayload(<<DevA1, Scalar>>), ObjectPayload}

FetchOutcomes ==
    {[kind |-> k] : k \in {"timeout", "error", "status", "bad_body"}}
      \cup {[kind |-> "ok", body |-> b] : b \in SeedBodies}

\* Variant of FetchInitialStatus that lets a timeout through to the caller
FetchInitialStatusRaises(ws_url, outcome) ==
    IF BuildHttpUrl(ws_url, "/api/status") = NoneUrl
    THEN [raised |-> FALSE, value |-> ListPayload(<<>>)]
    ELSE IF outcome.kind = "ok" THEN [raised |-> FALSE, value |-> outcome.body]
    ELSE [raised |-> outcome.kind = "timeout", value |-> ListPayload(<<>>)]

\* _fetch_initial_status(ws_url): the body of a 200 response, [] otherwise;
\* asyncio.TimeoutError and every other exception are caught
FetchInitialStatus(ws_url, outcome) ==
    IF BuildHttpUrl(ws_url, "/api/status") = NoneUrl
    THEN [raised |-> FALSE, value |-> ListPayload(<<>>)]
    ELSE IF outcome.kind = "ok" THEN [raised |-> FALSE, value |-> outcome.body]
    ELSE [raised |-> FALSE, value |-> ListPayload(<<>>)]

\* if initial_data: a non-empty list or a non-empty object
Truthy(value) ==
    value.kind = "object" \/ (value.kind = "list" /\ value.items # <<>>)

\* {d.get("device_name") for d in initial_data if d.get("device_name")}:
\* d.get raises AttributeError on an entry that is not an object, and on the
\* keys of an object body
DeviceNamesInData(initial_data) ==
    IF initial_data.kind # "list"
    THEN [raised |-> TRUE, names |-> {}]
    ELSE LET items == initial_data.items IN
         IF \E i \in 1..Len(items) : ~IsObject(items[i])
         THEN [raised |-> TRUE, names |-> {}]
         ELSE [raised |-> FALSE,
               names |-> {Get(items[i], "device_name") :
                            i \in {j \in 1..Len(items) :
                                     ~Falsy(Get(items[j], "device_name"))}}]

\* Variant of MissingDevices that misses nothing
MissingDevicesNone(configured_names, device_names_in_data) == {}

\* missing_devices = configured_names - device_names_in_data
MissingDevices(configured_names, device_names_in_data) ==
    configured_names \ device_names_in_data

\* json.dumps(initial_data): the text that json.loads turns back into the value
JsonDumps(value) ==
    IF value.kind = "list" THEN ListPayload(value.items) ELSE ObjectPayload

\* Variant of SeedPayload that applies the first result fetched
SeedPayloadFirst(s) == JsonDumps(s.results[1])

\* _update_state(hass, entry.entry_id, json.dumps(initial_data))
SeedPayload(s) == JsonDumps(s.initial_data)

\* The seed loop at its first fetch, and after three fetches that gave nothing
SeedStart == [pc |-> "fetch", attempt |-> 0, calls |-> 0, slept |-> 0,
              outcome |-> "none", initial_data |-> NoPayload, results |-> <<>>]
SeededNothing ==
    [pc |-> "done", attempt |-> max_retries - 1, calls |-> max_retries,
     slept |-> (max_retries - 1) * SeedSleepDelay,
     outcome |-> "error", initial_data |-> ListPayload(<<>>),
     results |-> [i \in 1..max_retries |-> ListPayload(<<>>)]]

NoRuntime == [InitRuntime EXCEPT !.task = "none"]

DidSeed(e, op, s, r) ==
    [entry |-> e, op |-> op, payload |-> s.initial_data, raised |-> r.raised,
     signals |-> r.signals, seen |-> r.seen]

\* One fetch returns, and async_setup_entry runs on to its next await: the
\* sleep before the next attempt, or, the loop left, the forwarding to the
\* platforms after the seed is applied and the listener task created.  An
\* exception raised on the way ends the set-up.
SeedFetch(e, outcome) ==
    /\ life[e].state = "setting_up" /\ seed[e].pc = "fetch"
    /\ UNCHANGED <<press, side>>
    /\ LET fetched == FetchInitialStatus(ServerUrl, outcome)
           initial_data == fetched.value
           s == [seed[e] EXCEPT !.calls = @ + 1, !.outcome = outcome.kind,
                                !.initial_data = initial_data,
                                !.results = Append(@, initial_data)]
           found == DeviceNamesInData(initial_data)
           none == [data |-> data, raised |-> FALSE, signals |-> 0, seen |-> <<>>]
       IN
       IF fetched.raised \/ (Truthy(initial_data) /\ found.raised)
       THEN /\ seed' = [seed EXCEPT ![e] = [s EXCEPT !.pc = "failed"]]
            /\ life' = [life EXCEPT ![e].state = "setup_failed"]
            /\ last' = DidSeed(e, "seed_raised", s, [none EXCEPT !.raised = TRUE])
            /\ UNCHANGED <<data, rt, plat>>
       ELSE IF /\ ~(/\ Truthy(initial_data)
                    /\ MissingDevices(StoreConfigured(data, e), found.names) = {})
               /\ seed[e].attempt < max_retries - 1
       THEN /\ seed' = [seed EXCEPT ![e] = [s EXCEPT !.pc = "sleep"]]
            /\ last' = DidSeed(e, "seed_retry", s, none)
            /\ UNCHANGED <<data, rt, life, plat>>
       ELSE LET r == IF Truthy(initial_data)
                     THEN UpdateState(data, e, SeedPayload(s))
                     ELSE none
            IN  /\ seed' = [seed EXCEPT ![e] = [s EXCEPT !.pc = "done"]]
                /\ data' = r.data
                /\ sensor' = SendSignal(sensor, e, r.signals)
                /\ button' = SendSignal(button, e, r.signals)
                /\ entity' = SendEntities(entity, e, r.signals, SeedPayload(s))
                /\ rt' = [rt EXCEPT ![e] = CreateTask(@)]
                /\ life' = [life EXCEPT ![e].state = "loaded"]
                /\ last' = DidSeed(e, "seed_done", s, r)

\* asyncio.sleep(1.0) is over: the next attempt of the loop
SeedWake(e) ==
    /\ life[e].state = "setting_up" /\ seed[e].pc = "sleep"
    /\ seed' = [seed EXCEPT ![e].pc = "fetch", ![e].attempt = @ + 1,
                            ![e].slept = @ + SeedSleepDelay]
    /\ last' = Did(e, "seed_wake")
    /\ UNCHANGED <<data, rt, life, plat, press, side>>

-----------------------------------------------------------------------------
(* Set-up again and reload *)

\* _get_configured_device_names(entry): the names of the devices of the
\* options (the model's entries have no legacy device)
GetConfiguredDeviceNames(devices) == Range(devices)

\* async_setup_entry up to its first fetch: the store of the entry is made
\* (again) with no devices and the configured names of the options
SetupBegin(d, e) ==
    [x \in DOMAIN d \cup {e} |->
        IF x = e THEN InitStore(GetConfiguredDeviceNames(options)) ELSE d[x]]

\* The host sets up an entry that is not loaded: async_setup_entry runs to
\* its first fetch
SetupEntry(e) ==
    /\ life[e].state \in {"unloaded", "setup_failed"}
    /\ data' = SetupBegin(data, e)
    /\ seed' = [seed EXCEPT ![e] = SeedStart]
    /\ life' = [life EXCEPT ![e].state = "setting_up"]
    /\ last' = Did(e, "setup")
    /\ UNCHANGED <<rt, plat, press, side>>

\* The options of a loaded entry are saved with other devices: the host
\* calls _async_options_updated, which sleeps before it reloads
OptionChoices == {<<>>, <<"a">>}
OptionsUpdated(e, devices) ==
    /\ life[e].state = "loaded" /\ life[e].updates < MaxReloads
    /\ devices # options
    /\ options' = devices
    /\ life' = [life EXCEPT ![e].updates = @ + 1]
    /\ last' = Did(e, "options_updated")
    /\ UNCHANGED <<data, rt, plat, seed, press, http, flow>>

\* _async_options_updated after its sleep: hass.config_entries.async_reload,
\* which the host runs when no set-up or unload of the entry is under way.
\* A loaded entry is unloaded first (async_unload_entry up to its await of
\* the task); an entry that is not loaded is set up.
Reload(e) ==
    /\ life[e].updates > 0
    /\ life[e].state \in {"loaded", "unloaded", "setup_failed"}
    /\ IF life[e].state = "loaded"
       THEN /\ rt' = [rt EXCEPT ![e] = StopSignal(@)]
            /\ life' = [life EXCEPT ![e].state = "reloading", ![e].updates = @ - 1]
            /\ UNCHANGED <<data, seed>>
       ELSE /\ data' = SetupBegin(data, e)
            /\ seed' = [seed EXCEPT ![e] = SeedStart]
            /\ life' = [life EXCEPT ![e].state = "setting_up", ![e].updates = @ - 1]
            /\ UNCHANGED rt
    /\ last' = [Did(e, "reload") EXCEPT
                   !.raised = life[e].state = "loaded" /\ StopRaises(rt[e])]
    /\ UNCHANGED <<plat, press, side>>

\* async_reload after the task has ended: async_unload_entry pops the store
\* entry and returns, and async_setup_entry runs to its first fetch
ReloadUnloaded(e) ==
    /\ life[e].state = "reloading" /\ TaskEnded(rt[e])
    /\ data' = SetupBegin(data, e)
    /\ seed' = [seed EXCEPT ![e] = SeedStart]
    /\ life' = [life EXCEPT ![e].state = "setting_up"]
    /\ last' = [Did(e, "reloaded") EXCEPT
                   !.raised = Suppress(AwaitTask(rt[e])) # "none"]
    /\ UNCHANGED <<rt, plat, press, side>>

-----------------------------------------------------------------------------
(* button.py: UPSCommandButton.async_press *)

\* A response to POST /api/command: its status, then its body
Statuses == {200, 400, 503}

NonObjectBody == [scalar |-> "[]"]      \* JSON that is not an object
CommandBodies ==
    {[success |-> TRUE], [success |-> FALSE, error |-> "busy"], [error |-> "busy"],
     [detail |-> "rejected"], NonObjectBody}

NoBody == [none |-> "body"]
NoResult == [none |-> "result"]         \* self._last_result = None

\* The command button of one device: no call in progress, nothing sent yet
NoPress == [pc |-> "idle", posts |-> 0, url |-> NoneUrl, status |-> 0, body |-> NoBody,
            cause |-> "none", raised |-> FALSE, last_result |-> NoResult,
            before |-> NoResult]

\* str(err) of the exceptions of the request: asyncio.TimeoutError is raised
\* without a message; the client's connection and decoding errors and
\* AttributeError have one
StrErr(kind) ==
    CASE kind = "timeout" -> ""
      [] kind = "connection" -> "Cannot connect to host ups:8080"
      [] kind = "bad_body" -> "Attempt to decode JSON with unexpected mimetype"
      [] kind = "attribute" -> "object has no attribute 'get'"

\* runtime.get("base_http") of the entry's store, None without a store
BaseHttp(d, e) == IF e \in DOMAIN d THEN BuildHttpUrl(ServerUrl, "") ELSE NoneUrl

\* url = f"{base_http}/api/command"
CommandUrl(base_http) == [base_http EXCEPT !.path = @ \o "/api/command"]

\* Variant of PressFailed that sends the command again
PressFailedRetry(p, kind) ==
    [p EXCEPT !.pc = "posting", !.posts = @ + 1, !.cause = kind]

\* Variant of PressFailed that raises and keeps the previous result
PressFailedSilent(p, kind) ==
    [p EXCEPT !.pc = "idle", !.cause = kind, !.raised = TRUE]

\* except Exception as err: the failure is kept in _last_result and
\* HomeAssistantError raised from err
PressFailed(p, kind) ==
    [p EXCEPT !.pc = "idle", !.cause = kind, !.raised = TRUE,
              !.last_result = [success |-> FALSE, error |-> StrErr(kind)]]

\* Variant of ErrorMessage that drops the server's text
ErrorMessageGeneric(result) == "unknown error"

\* message = result.get("error", "unknown error")
ErrorMessage(result) ==
    IF "error" \in DOMAIN result THEN result.error ELSE "unknown error"

\* async_press up to "await session.post(url, json=payload)": without a base
\* URL HomeAssistantError is raised and nothing is sent
PressStart(e) ==
    /\ life[e].state = "loaded" /\ press[e].pc = "idle"
    /\ LET base_http == BaseHttp(data, e)
           p == [press[e] EXCEPT !.posts = 0, !.status = 0, !.body = NoBody,
                                 !.cause = "none", !.raised = FALSE,
                                 !.before = press[e].last_result]
       IN  press' = [press EXCEPT ![e] =
                IF base_http = NoneUrl
                THEN [p EXCEPT !.cause = "no_base", !.raised = TRUE]
                ELSE [p EXCEPT !.pc = "posting", !.posts = @ + 1,
                               !.url = CommandUrl(base_http)]]
    /\ last' = Did(e, "press")
    /\ UNCHANGED <<data, rt, life, plat, seed, side>>

\* The response arrives: resp = await session.post(...), then await resp.json()
PressResponse(e, status) ==
    /\ press[e].pc = "posting"
    /\ press' = [press EXCEPT ![e].pc = "reading", ![e].status = status]
    /\ last' = Did(e, "press_response")
    /\ UNCHANGED <<data, rt, life, plat, seed, side>>

\* The request fails or async_timeout.timeout(HTTP_TIMEOUT) expires
PressPostFails(e, kind) ==
    /\ press[e].pc = "posting"
    /\ press' = [press EXCEPT ![e] = PressFailed(@, kind)]
    /\ last' = Did(e, "press_failed")
    /\ UNCHANGED <<data, rt, life, plat, seed, side>>

\* Variant of ResultKept that reads the body's success field
ResultInterpreted(p, result) ==
    IF "success" \in DOMAIN result /\ result.success = FALSE
    THEN [p EXCEPT !.pc = "idle", !.cause = "status", !.raised = TRUE,
                   !.last_result = [success |-> FALSE, error |-> ErrorMessage(result)]]
    ELSE [p EXCEPT !.pc = "idle", !.cause = "ok", !.last_result = result]

\* self._last_result = result, and the call returns
ResultKept(p, result) ==
    [p EXCEPT !.pc = "idle", !.cause = "ok", !.last_result = result]

\* extra_state_attributes: last_result is shown when there is one
ExtraStateAttributes(p) ==
    IF p.last_result # NoResult /\ DOMAIN p.last_result # {}
    THEN [shown |-> TRUE, last_result |-> p.last_result]
    ELSE [shown |-> FALSE, last_result |-> NoResult]

\* result = await resp.json() returns: a status of 400 or more gives the
\* failure with the server's message; otherwise the result is kept as it is.
\* result.get on a body that is not an object raises AttributeError, which
\* except Exception turns into a failure.
PressBody(e, result) ==
    /\ press[e].pc = "reading"
    /\ LET p == [press[e] EXCEPT !.body = result] IN
       press' = [press EXCEPT ![e] =
          IF ~IsObject(result) THEN PressFailed(p, "attribute")
          ELSE IF p.status >= 400
          THEN [p EXCEPT !.pc = "idle", !.cause = "status", !.raised = TRUE,
                         !.last_result = [success |-> FALSE,
                                          error |-> ErrorMessage(result)]]
          ELSE ResultKept(p, result)]
    /\ last' = Did(e, "press_done")
    /\ UNCHANGED <<data, rt, life, plat, seed, side>>

\* The body cannot be decoded, or the timeout expires while it is read
PressBodyFails(e, kind) ==
    /\ press[e].pc = "reading"
    /\ press' = [press EXCEPT ![e] = PressFailed(@, kind)]
    /\ last' = Did(e, "press_failed")
    /\ UNCHANGED <<data, rt, life, plat, seed, side>>

Init ==
    /\ data \in [EntryIds -> {InitStore(cfg) : cfg \in ConfigChoices}]
    /\ rt = [e \in EntryIds |-> InitRuntime]
    /\ life = [e \in EntryIds |-> [state |-> "loaded", host_stopped |-> FALSE, updates |-> 0]]
    /\ sensor = [e \in EntryIds |-> NoPlatform]
    /\ button = [e \in EntryIds |-> NoPlatform]
    /\ last = Did("e1", "setup")
    /\ seed = [e \in EntryIds |-> SeededNothing]
    /\ press = [e \in EntryIds |-> NoPress]
    /\ entity = [e \in EntryIds |-> [x \in Followed |-> NoEntity]]
    /\ http = NoDerivation
    /\ options = <<>>
    /\ flow = [f \in FlowIds |-> NoFlow]

Next ==
    \E e \in EntryIds :
        \/ TaskStart(e)
        \/ ConnectOk(e)
        \/ ConnectFail(e)
        \/ \E payload \in Payloads : Receive(e, payload)
        \/ \E kind \in DropKinds : Drop(e, kind)
        \/ Tick(e)
        \/ Wake(e)
        \/ TaskCancelled(e)
        \/ HostStop(e)
        \/ UnloadStop(e)
        \/ UnloadFinish(e)

Spec == Init /\ [][Next]_vars

-----------------------------------------------------------------------------
(* The connection with its platforms: listener, store, discovery *)

\* The device lists the server sends while the platforms discover
DiscoveryPayloads ==
    {ListPayload(<<>>), ListPayload(<<DevA1>>), ListPayload(<<DevA2>>),
     ListPayload(<<DevB1>>)}

\* The platforms are set up by separate tasks and share no variable: each
\* reads the store and writes its own ledger.  A behaviour follows the
\* platform that is set up first, for as long as the other is not set up;
\* the connection stays up.
DiscoveryNext ==
    \E e \in EntryIds :
        \/ TaskStart(e)
        \/ ConnectOk(e)
        \/ \E payload \in DiscoveryPayloads : Receive(e, payload)
        \/ (~button[e].setup /\ SensorSetup(e))
        \/ (~sensor[e].setup /\ ButtonSetup(e))
        \/ \E w \in Workers : SensorWork(e, w)
        \/ \E w \in Workers : ButtonWork(e, w)

DiscoverySpec == Init /\ [][DiscoveryNext]_vars

-----------------------------------------------------------------------------
(* The set-up of an entry: seed loop, then listener and platforms *)

SeedInit ==
    /\ data \in [EntryIds -> {InitStore(cfg) : cfg \in ConfigChoices}]
    /\ rt = [e \in EntryIds |-> NoRuntime]
    /\ life = [e \in EntryIds |-> [state |-> "setting_up", host_stopped |-> FALSE, updates |-> 0]]
    /\ sensor = [e \in EntryIds |-> NoPlatform]
    /\ button = [e \in EntryIds |-> NoPlatform]
    /\ last = Did("e1", "setup")
    /\ seed = [e \in EntryIds |-> SeedStart]
    /\ press = [e \in EntryIds |-> NoPress]
    /\ entity = [e \in EntryIds |-> [x \in Followed |-> NoEntity]]
    /\ http = NoDerivation
    /\ options = <<>>
    /\ flow = [f \in FlowIds |-> NoFlow]

\* The messages of the stream followed after the set-up
FirstMessages == {ListPayload(<<>>), ListPayload(<<DevA1>>), ListPayload(<<Scalar>>)}

\* The set-up is followed to the end of the seed loop, and the stream from
\* there until a message has populated the mapping.
SeedNext ==
    \E e \in EntryIds :
        \/ \E outcome \in FetchOutcomes : SeedFetch(e, outcome)
        \/ SeedWake(e)
        \/ TaskStart(e)
        \/ ConnectOk(e)
        \/ \E payload \in FirstMessages :
              (StoreDevices(data, e) = <<>> /\ Receive(e, payload))
        \/ (~button[e].setup /\ SensorSetup(e))
        \/ (~sensor[e].setup /\ ButtonSetup(e))
        \/ \E w \in Workers : SensorWork(e, w)
        \/ \E w \in Workers : ButtonWork(e, w)

SeedSpec == SeedInit /\ [][SeedNext]_vars

-----------------------------------------------------------------------------
(* Commands sent while the listener runs *)

PressNext ==
    \E e \in EntryIds :
        \/ PressStart(e)
        \/ \E status \in Statuses : PressResponse(e, status)
        \/ \E kind \in {"timeout", "connection"} : PressPostFails(e, kind)
        \/ \E result \in CommandBodies : PressBody(e, result)
        \/ \E kind \in {"timeout", "bad_body"} : PressBodyFails(e, kind)
        \/ TaskStart(e)
        \/ ConnectOk(e)
        \/ ConnectFail(e)
        \/ \E kind \in DropKinds : Drop(e, kind)
        \/ Tick(e)
        \/ Wake(e)

PressSpec == Init /\ [][PressNext]_vars

\* The stream of a server with two devices, each reported in a message of its
\* own, in any order and any number of times
ArrivalPayloads == {ListPayload(<<DevA1>>), ListPayload(<<DevB1>>)}

ArrivalNext ==
    \E e \in EntryIds :
        \/ TaskStart(e)
        \/ ConnectOk(e)
        \/ \E payload \in ArrivalPayloads : Receive(e, payload)
        \/ (~button[e].setup /\ SensorSetup(e))
        \/ (~sensor[e].setup /\ ButtonSetup(e))
        \/ \E w \in Workers : SensorWork(e, w)
        \/ \E w \in Workers : ButtonWork(e, w)

ArrivalSpec == Init /\ [][ArrivalNext]_vars

\* The button platform with a server that reports a nut device, an apcupsd
\* device and a device without a type
TypePayloads == {ListPayload(<<DevA1, DevB1>>), ListPayload(<<DevC1>>)}

TypeNext ==
    \E e \in EntryIds :
        \/ TaskStart(e)
        \/ ConnectOk(e)
        \/ \E payload \in TypePayloads : Receive(e, payload)
        \/ ButtonSetup(e)
        \/ \E w \in Workers : ButtonWork(e, w)

TypeSpec == Init /\ [][TypeNext]_vars

\* The same stream with a reporting three attributes out of order
OrderPayloads == {ListPayload(<<DevA3>>), ListPayload(<<DevB1>>)}

OrderNext ==
    \E e \in EntryIds :
        \/ TaskStart(e)
        \/ ConnectOk(e)
        \/ \E payload \in OrderPayloads : Receive(e, payload)
        \/ (~button[e].setup /\ SensorSetup(e))
        \/ (~sensor[e].setup /\ ButtonSetup(e))
        \/ \E w \in Workers : SensorWork(e, w)
        \/ \E w \in Workers : ButtonWork(e, w)

OrderSpec == Init /\ [][OrderNext]_vars

\* The executor runs every job submitted to it: a worker thread that holds a
\* discovery pass keeps taking steps until the pass returns or raises.
FairDiscoverySpec ==
    /\ ArrivalSpec
    /\ \A e \in EntryIds : \A w \in Workers :
        /\ WF_vars(SensorWork(e, w))
        /\ WF_vars(ButtonWork(e, w))

\* The event loop resumes a task whose awaited timer has fired or whose
\* cancellation was requested; the network owes nothing.
FairSpec ==
    /\ Spec
    /\ \A e \in EntryIds :
        /\ WF_vars(TaskStart(e))
        /\ WF_vars(Tick(e))
        /\ WF_vars(Wake(e))
        /\ WF_vars(TaskCancelled(e))

\* The entities of device a: the stream reports the device with and without
\* the attribute load and in each of its status texts, or omits it; a message
\* is taken when the discovery passes and the entities' jobs have run
EntityPayloads ==
    {ListPayload(<<>>)}
        \cup {ListPayload(<<dev>>) : dev \in {DevA1, DevA2, DevA4, DevA5, DevA6}}

Quiet(e) ==
    /\ \A w \in Workers : sensor[e].pass[w].pc = "idle"
    /\ \A x \in Followed : ~entity[e][x].job /\ ~entity[e][x].write

EntityNext ==
    \E e \in EntryIds :
        \/ TaskStart(e)
        \/ ConnectOk(e)
        \/ \E payload \in EntityPayloads : Quiet(e) /\ Receive(e, payload)
        \/ SensorSetup(e)
        \/ \E w \in Workers : SensorWork(e, w)
        \/ \E x \in Followed : EntityAdded(e, x)
        \/ \E x \in Followed : EntityUpdate(e, x)
        \/ \E x \in Followed : EntityWrite(e, x)
        \/ UnloadStop(e)
        \/ TaskCancelled(e)
        \/ UnloadFinish(e)

EntitySpec == Init /\ [][EntityNext]_vars

\* build_http_url applied to an address, then to the URL it returned
UrlInit ==
    /\ data = [e \in EntryIds |-> InitStore({})]
    /\ rt = [e \in EntryIds |-> NoRuntime]
    /\ life = [e \in EntryIds |-> [state |-> "setting_up", host_stopped |-> FALSE, updates |-> 0]]
    /\ sensor = [e \in EntryIds |-> NoPlatform]
    /\ button = [e \in EntryIds |-> NoPlatform]
    /\ last = Did("e1", "setup")
    /\ seed = [e \in EntryIds |-> SeedStart]
    /\ press = [e \in EntryIds |-> NoPress]
    /\ entity = [e \in EntryIds |-> [x \in Followed |-> NoEntity]]
    /\ http \in {[pc |-> "given", given |-> a, path |-> p,
                  url |-> NoneVal, again |-> NoneVal] :
                    a \in Addresses, p \in AskedPaths}
    /\ options = <<>>
    /\ flow = [f \in FlowIds |-> NoFlow]

UrlNext == \E e \in EntryIds : Derive(e) \/ DeriveAgain(e)

UrlSpec == UrlInit /\ [][UrlNext]_vars

\* Two config entries, each with its store, listener and sensor platform; a
\* message is taken when the passes of its entry's platform have run
PairIds == {"e1", "e2"}
PairPayloads == {ListPayload(<<DevA1, DevB1>>)}

PairInit ==
    /\ data = [e \in PairIds |-> InitStore(IF e = "e1" THEN {} ELSE {"b"})]
    /\ rt = [e \in PairIds |-> InitRuntime]
    /\ life = [e \in PairIds |-> [state |-> "loaded", host_stopped |-> FALSE, updates |-> 0]]
    /\ sensor = [e \in PairIds |-> NoPlatform]
    /\ button = [e \in PairIds |-> NoPlatform]
    /\ last = Did("e1", "setup")
    /\ seed = [e \in PairIds |-> SeededNothing]
    /\ press = [e \in PairIds |-> NoPress]
    /\ entity = [e \in PairIds |-> [x \in Followed |-> NoEntity]]
    /\ http = NoDerivation
    /\ options = <<>>
    /\ flow = [f \in FlowIds |-> NoFlow]

PairNext ==
    \E e \in PairIds :
        \/ TaskStart(e)
        \/ ConnectOk(e)
        \/ \E payload \in PairPayloads :
              (IdleWorkers(sensor[e]) = Workers /\ Receive(e, payload))
        \/ Drop(e, "dropped")
        \/ SensorSetup(e)
        \/ \E w \in Workers : SensorWork(e, w)
        \/ UnloadStop(e)
        \/ TaskCancelled(e)
        \/ UnloadFinish(e)

PairSpec == PairInit /\ [][PairNext]_vars

\* Two options flows of the entry, their steps interleaving at the awaits
\* and between the forms
FlowInit ==
    /\ data = [e \in EntryIds |-> InitStore({})]
    /\ rt = [e \in EntryIds |-> InitRuntime]
    /\ life = [e \in EntryIds |-> [state |-> "loaded", host_stopped |-> FALSE, updates |-> 0]]
    /\ sensor = [e \in EntryIds |-> NoPlatform]
    /\ button = [e \in EntryIds |-> NoPlatform]
    /\ last = Did("e1", "setup")
    /\ seed = [e \in EntryIds |-> SeededNothing]
    /\ press = [e \in EntryIds |-> NoPress]
    /\ entity = [e \in EntryIds |-> [x \in Followed |-> NoEntity]]
    /\ http = NoDerivation
    /\ options \in {<<>>, <<"a">>}
    /\ flow = [f \in FlowIds |-> NoFlow]

FlowNext ==
    \E f \in FlowIds :
        \/ ShowAddDevice(f)
        \/ \E name \in NameInputs : AddDeviceSubmit(f, name)
        \/ \E ok \in BOOLEAN : AddDeviceTested(f, ok)
        \/ SelectAttributesSubmit(f)
        \/ \E ok \in BOOLEAN : SelectAttributesRegistered(f, ok)
        \/ \E name \in NameInputs : ReconfigureDevice(f, name)
        \/ \E name \in NameInputs : ReconfigureSubmit(f, name)
        \/ \E ok \in BOOLEAN : ReconfigureRegistered(f, ok)
        \/ \E ok \in BOOLEAN : ReconfigureDeleted(f, ok)
        \/ FlowOpen(f)

FlowSpec == FlowInit /\ [][FlowNext]_vars

\* Snapshots of a server whose device names and attribute names have hyphens
KeyPayloads == {ListPayload(<<DevH1>>), ListPayload(<<DevH2>>),
                ListPayload(<<DevH1, DevH2>>)}

\* One entry set up with no allow-list; the platforms discover what the
\* websocket reports, one message at a time
KeyInit ==
    /\ data = [e \in EntryIds |-> InitStore({})]
    /\ rt = [e \in EntryIds |-> InitRuntime]
    /\ life = [e \in EntryIds |-> [state |-> "loaded", host_stopped |-> FALSE, updates |-> 0]]
    /\ sensor = [e \in EntryIds |-> NoPlatform]
    /\ button = [e \in EntryIds |-> NoPlatform]
    /\ last = Did("e1", "setup")
    /\ seed = [e \in EntryIds |-> SeededNothing]
    /\ press = [e \in EntryIds |-> NoPress]
    /\ entity = [e \in EntryIds |-> [x \in Followed |-> NoEntity]]
    /\ http = NoDerivation
    /\ options = <<>>
    /\ flow = [f \in FlowIds |-> NoFlow]

KeyNext ==
    \E e \in EntryIds :
        \/ TaskStart(e)
        \/ ConnectOk(e)
        \/ \E payload \in KeyPayloads :
              (/\ IdleWorkers(sensor[e]) = Workers
               /\ IdleWorkers(button[e]) = Workers
               /\ Receive(e, payload))
        \/ SensorSetup(e)
        \/ ButtonSetup(e)
        \/ \E w \in Workers : SensorWork(e, w)
        \/ \E w \in Workers : ButtonWork(e, w)

KeySpec == KeyInit /\ [][KeyNext]_vars

\* What the fetches of a set-up come to while the entry is set up, reloaded
\* and unloaded
ReloadOutcomes ==
    {[kind |-> "timeout"], [kind |-> "ok", body |-> ListPayload(<<DevA1>>)],
     [kind |-> "ok", body |-> ObjectPayload]}

\* An entry that is not yet set up; the host sets it up, unloads it and
\* reloads it after its options have changed, in any order
ReloadInit ==
    /\ data = <<>>
    /\ rt = [e \in EntryIds |-> NoRuntime]
    /\ life = [e \in EntryIds |->
                 [state |-> "unloaded", host_stopped |-> FALSE, updates |-> 0]]
    /\ sensor = [e \in EntryIds |-> NoPlatform]
    /\ button = [e \in EntryIds |-> NoPlatform]
    /\ last = Did("e1", "none")
    /\ seed = [e \in EntryIds |-> SeedStart]
    /\ press = [e \in EntryIds |-> NoPress]
    /\ entity = [e \in EntryIds |-> [x \in Followed |-> NoEntity]]
    /\ http = NoDerivation
    /\ options = <<>>
    /\ flow = [f \in FlowIds |-> NoFlow]

ReloadNext ==
    \E e \in EntryIds :
        \/ SetupEntry(e)
        \/ \E outcome \in ReloadOutcomes : SeedFetch(e, outcome)
        \/ SeedWake(e)
        \/ TaskStart(e)
        \/ ConnectOk(e)
        \/ Drop(e, "dropped")
        \/ Tick(e)
        \/ Wake(e)
        \/ TaskCancelled(e)
        \/ \E devices \in OptionChoices : OptionsUpdated(e, devices)
        \/ Reload(e)
        \/ ReloadUnloaded(e)
        \/ HostStop(e)
        \/ UnloadStop(e)
        \/ UnloadFinish(e)

ReloadSpec == ReloadInit /\ [][ReloadNext]_vars

-----------------------------------------------------------------------------
(* Vocabulary of the properties *)

\* The device names carried by the objects of a payload
NamesIn(payload) ==
    IF payload.kind # "list" THEN {}
    ELSE {Get(payload.items[i], "device_name") :
            i \in {j \in 1..Len(payload.items) :
                     /\ IsObject(payload.items[j])
                     /\ ~Falsy(Get(payload.items[j], "device_name"))}}

\* A list of device snapshots: every entry is a JSON object, named or not
IsSnapshotList(payload) ==
    /\ payload.kind = "list"
    /\ \A i \in 1..Len(payload.items) : IsObject(payload.items[i])

\* The last object of the list that carries the name
LastCarrying(items, name) ==
    items[CHOOSE i \in 1..Len(items) :
            /\ Get(items[i], "device_name") = name
            /\ \A j \in (i+1)..Len(items) : Get(items[j], "device_name") # name]

\* The step taken last was the listener of e losing or failing its connection
Disconnected(e) ==
    /\ last.entry = e
    /\ \/ last.op \in DropKinds \cup {"connect_failed"}
       \/ last.op = "apply" /\ last.raised

StopIssued(e) == life[e].host_stopped \/ life[e].state # "loaded"

-----------------------------------------------------------------------------
(* Snapshot store *)

\* C1: merge, not replace-all: while the store entry exists, no step removes a
\* device name from the mapping, and a step leaves the entry of every known
\* device that its payload does not name exactly as it was.
C1_MergeNotReplaceAll ==
    [][\A e \in EntryIds :
         (e \in DOMAIN data /\ e \in DOMAIN data') =>
            \A name \in DictKeys(data[e].devices) :
               /\ DictHas(data'[e].devices, name)
               /\ (name \notin NamesIn(last'.payload) =>
                     DictValue(data'[e].devices, name)
                       = DictValue(data[e].devices, name))]_vars

\* a list naming only a was applied and b, known before, is still there
C1_Witness ==
    /\ last.op = "apply" /\ NamesIn(last.payload) = {"a"}
    /\ DictHas(StoreDevices(data, "e1"), "b")
    /\ DictValue(StoreDevices(data, "e1"), "b") = DevB1

\* C2: wholesale replacement: after the apply of a list of device snapshots
\* the entry of every device named in the list is the last snapshot of the
\* list carrying that name, whole: nothing of the prior entry is left in it.
C2_WholesaleReplacement ==
    [][\A e \in EntryIds :
         (last'.op = "apply" /\ last'.entry = e /\ IsSnapshotList(last'.payload)) =>
            \A name \in NamesIn(last'.payload) :
               /\ DictHas(StoreDevices(data', e), name)
               /\ DictValue(StoreDevices(data', e), name)
                    = LastCarrying(last'.payload.items, name)]_vars

\* a was known with attributes load and status, and the snapshot that
\* replaced it carries status alone
C2_Witness ==
    /\ last.op = "apply" /\ last.payload = ListPayload(<<DevA1, DevA2>>)
    /\ DictKeys(DictValue(StoreDevices(data, "e1"), "a").attributes) = {"status"}

\* C3: every apply of a payload that decodes as JSON sends exactly one change
\* signal, and sends it with all of the apply's updates in the mapping.
C3_SignalAfterEveryApply ==
    [][\A e \in EntryIds :
         (last'.op = "apply" /\ last'.entry = e /\ JsonLoads(last'.payload).ok) =>
            /\ last'.signals = 1
            /\ last'.seen = StoreDevices(data', e)]_vars

-----------------------------------------------------------------------------
(* Stream client *)

\* C4: as long as no stop is issued, every loss of the connection (clean
\* close, error close, connect failure, any other exception) is followed by a
\* new connect attempt.
C4_ReconnectForever ==
    \A e \in EntryIds :
        Disconnected(e) ~> (rt[e].task = "connecting" \/ StopIssued(e))

\* a connect attempt made after the connection was lost and the delay slept
C4_Witness ==
    /\ last.op = "connect" /\ rt["e1"].task = "connecting"
    /\ rt["e1"].waited = RECONNECT_DELAY /\ ~StopIssued("e1")

\* C5: once the stop signal is issued the listener starts no connect attempt,
\* completes no connection and applies no message.
C5_StoppedIsTerminal ==
    [][\A e \in EntryIds :
         StopIssued(e) =>
            ~(last'.entry = e /\ last'.op \in {"connect", "connected", "apply"})]_vars

\* the stop came during the reconnect delay and the task ended there
C5_Witness ==
    /\ StopIssued("e1") /\ last.op = "cancelled"
    /\ rt["e1"].task = "done" /\ rt["e1"].timer > 0

\* C6: a connect attempt that follows a disconnect is made from the sleep,
\* when exactly RECONNECT_DELAY seconds have passed since the disconnect;
\* never by the step that follows the disconnect.
C6_FixedReconnectDelay ==
    [][\A e \in EntryIds :
         (last'.op = "connect" /\ last'.entry = e /\ rt[e].task # "created") =>
            /\ rt[e].task = "sleeping"
            /\ rt[e].waited = RECONNECT_DELAY
            /\ ~Disconnected(e)]_vars

\* the stream closed cleanly and the next attempt was made after the delay
C6_Witness ==
    /\ last.op = "connect" /\ rt["e1"].ws = "closed"
    /\ rt["e1"].waited = RECONNECT_DELAY /\ rt["e1"].timer = 0

\* C7: after a stop signal the listener task ends with the socket closed,
\* and no second of a reconnect sleep passes once the stop is issued.
C7_StopCompletes ==
    /\ \A e \in EntryIds :
         StopIssued(e) ~> (rt[e].task = "done" /\ rt[e].ws # "open")
    /\ [][\A e \in EntryIds :
            StopIssued(e) => ~(last'.entry = e /\ last'.op = "tick")]_vars

\* the stop came while the listener waited for a message: socket closed
C7_Witness ==
    /\ StopIssued("e1") /\ last.op = "cancelled"
    /\ rt["e1"].task = "done" /\ rt["e1"].ws = "closed" /\ rt["e1"].timer = 0

-----------------------------------------------------------------------------
(* Discovery *)


\* The ledger keys and the entities of the devices named in names
SensorKeysOf(names) ==
    {StatusKey(n) : n \in names} \cup {EntityKey(n, k) : n \in names, k \in AttrNames}
ButtonKeysOf(e, names) ==
    {ButtonKey(e, n, BUTTON_DESCRIPTIONS[i]) :
        n \in names, i \in 1..Len(BUTTON_DESCRIPTIONS)}

\* The entities a platform has handed over or holds in a running pass
Discovered(p) ==
    p.emitted \cup UNION {Range(p.pass[w].new) : w \in Workers}

AllIdle(p) == \A w \in Workers : p.pass[w].pc = "idle"

\* C8: the discovery ledgers are append-only: no step removes a key from the
\* sensor ledger or from the button ledger, whatever the snapshots omit.
C8_LedgerAppendOnly ==
    [][\A e \in EntryIds :
         /\ sensor[e].added \subseteq sensor'[e].added
         /\ button[e].added \subseteq button'[e].added]_vars

\* the attribute sensor of a's load is in the ledger, the current snapshot
\* of a has no load attribute, and a pass has run to its end on it
C8_Witness ==
    /\ EntityKey("a", "load") \in sensor["e1"].added
    /\ DictHas(StoreDevices(data, "e1"), "a")
    /\ DictValue(StoreDevices(data, "e1"), "a") = DevA2
    /\ last.op = "sensor_pass" /\ AllIdle(sensor["e1"])

\* C9: no entity (device, facet) is handed to the entity layer twice, by the
\* initial pass and the passes the change signals start.
C9_EmittedAtMostOnce ==
    \A e \in EntryIds : sensor[e].repeated = {} /\ button[e].repeated = {}

\* C10: with a non-empty configured_names, every key in a ledger and every
\* entity discovered belongs to a device named in configured_names.
C10_AllowListFiltering ==
    \A e \in EntryIds :
        LET cfg == StoreConfigured(data, e) IN
        cfg # {} =>
            /\ sensor[e].added \subseteq SensorKeysOf(cfg)
            /\ button[e].added \subseteq ButtonKeysOf(e, cfg)
            /\ \A x \in Discovered(sensor[e]) \cup Discovered(button[e]) :
                  x.device_name \in cfg

\* only a is configured; b came first in the mapping, was passed over, and
\* a's status sensor was discovered by a pass that went by b
C10_Witness ==
    /\ StoreConfigured(data, "e1") = {"a"}
    /\ Len(StoreDevices(data, "e1")) = 2 /\ StoreDevices(data, "e1")[1].k = "b"
    /\ StatusSensor("a") \in sensor["e1"].emitted

\* The ledger keys a completed pass owes for the mapping and allow-list
OwedSensorKeys(devices, cfg) ==
    UNION {{StatusKey(devices[i].k)}
             \cup {EntityKey(devices[i].k, k) : k \in DictKeys(Attrs(devices[i].v))}
           : i \in {j \in 1..Len(devices) : ~Filtered(cfg, devices[j].k)}}

\* The step ends a sensor pass normally: the initial pass of the platform
\* set-up, or a worker's pass leaving its last statement
SensorPassCompletes(e) ==
    \/ last'.op = "sensor_setup" /\ last'.entry = e
    \/ \E w \in Workers :
          sensor[e].pass[w].pc = "emit" /\ sensor'[e].pass[w].pc = "idle"

\* C11: when a sensor pass completes, the ledger holds the status key and the
\* key of every attribute of every device of the mapping that passes the
\* allow-list, and no attribute sensor was ever made for the attribute status.
C11_DiscoveryCompleteness ==
    [][\A e \in EntryIds :
         SensorPassCompletes(e) =>
            /\ OwedSensorKeys(StoreDevices(data', e), StoreConfigured(data', e))
                 \subseteq sensor'[e].added
            /\ \A x \in Discovered(sensor'[e]) :
                  ~(x.cls = "UPSAttributeSensor" /\ x.attribute = "status")]_vars

-----------------------------------------------------------------------------
(* Seed *)

\* The step is a fetch of the seed loop of e returning
SeedAttempt(e) == seed'[e].calls = seed[e].calls + 1

SeedA == ListPayload(<<DevA1>>)
SeedAB == ListPayload(<<DevA1, DevB1>>)

\* C12: the seed loop makes at most 3 fetches; a fetch before the third that
\* returns a list of device objects is the last one exactly when the list is
\* not empty and names every configured device; the third is always the
\* last; and exactly 1 second of sleep lies between two consecutive fetches.
C12_SeedRetryLoop ==
    [][\A e \in EntryIds :
         /\ SeedAttempt(e) =>
              LET k == seed'[e].calls
                  result == seed'[e].initial_data
              IN  /\ k <= 3
                  /\ seed[e].slept = (k - 1) * 1
                  /\ (k < 3 /\ IsSnapshotList(result)) =>
                        ((seed'[e].pc # "sleep") <=>
                           (/\ result.items # <<>>
                            /\ StoreConfigured(data, e) \subseteq NamesIn(result)))
                  /\ k = 3 => seed'[e].pc # "sleep"
         /\ seed'[e].slept # seed[e].slept =>
              (seed[e].pc = "sleep" /\ seed'[e].slept = seed[e].slept + 1)]_vars

\* a and b are configured; the first fetch gave a alone, the second gave both
\* and ended the loop after one second of sleep
C12_Witness ==
    /\ StoreConfigured(data, "e1") = {"a", "b"}
    /\ seed["e1"].results = <<SeedA, SeedAB>>
    /\ seed["e1"].pc = "done" /\ seed["e1"].slept = 1

\* C13: when the seed loop ends, by convergence or after its third fetch, the
\* set-up goes on (listener task created, entry loaded) and the mapping holds
\* exactly the named devices of the last fetch; with a and b configured and
\* fetches giving [a], [a], [a, b] the loop ends after the third fetch with
\* both devices in the mapping.
C13_SeedResult ==
    [][\A e \in EntryIds :
         /\ (seed[e].pc = "fetch" /\ seed'[e].pc = "done") =>
              LET result == seed'[e].initial_data IN
              /\ life'[e].state = "loaded" /\ rt'[e].task = "created"
              /\ DictKeys(StoreDevices(data', e)) = NamesIn(result)
              /\ \A name \in NamesIn(result) :
                    DictValue(StoreDevices(data', e), name)
                      = LastCarrying(result.items, name)
         /\ (/\ SeedAttempt(e)
             /\ StoreConfigured(data, e) = {"a", "b"}
             /\ seed'[e].results = <<SeedA, SeedA, SeedAB>>) =>
              /\ seed[e].results = <<SeedA, SeedA>> /\ seed[e].pc = "fetch"
              /\ seed'[e].pc = "done"
              /\ DictKeys(StoreDevices(data', e)) = {"a", "b"}]_vars

\* the fetches gave [a], [a], [a, b] and the mapping holds a and b
C13_Witness ==
    /\ StoreConfigured(data, "e1") = {"a", "b"}
    /\ seed["e1"].results = <<SeedA, SeedA, SeedAB>>
    /\ seed["e1"].pc = "done" /\ seed["e1"].calls = 3
    /\ DictKeys(StoreDevices(data, "e1")) = {"a", "b"}

\* The seed loop of e ended with three empty results
SeedGaveNothing(e) ==
    /\ seed[e].pc = "done"
    /\ seed[e].results = <<ListPayload(<<>>), ListPayload(<<>>), ListPayload(<<>>)>>

\* C14: a fetch that times out, fails in transport or gets a status other
\* than 200 gives the empty result and does not fail the set-up; after three
\* empty results the set-up completes with an empty mapping and the listener
\* task created; the first stream message that names devices then fills the
\* mapping and starts a discovery pass of every platform set up, and once
\* the passes are over the ledger holds the status key of every device that
\* passes the allow-list.
C14_SeedFailureDegrades ==
    /\ [][\A e \in EntryIds :
            /\ (SeedAttempt(e) /\ seed'[e].outcome \in {"timeout", "error", "status"}) =>
                 /\ seed'[e].initial_data = ListPayload(<<>>)
                 /\ life'[e].state # "setup_failed"
            /\ (SeedAttempt(e) /\ SeedGaveNothing(e)') =>
                 /\ life'[e].state = "loaded" /\ rt'[e].task = "created"
                 /\ StoreDevices(data', e) = <<>>
            /\ (/\ SeedGaveNothing(e) /\ StoreDevices(data, e) = <<>>
                /\ last'.op = "apply" /\ ~last'.raised
                /\ NamesIn(last'.payload) # {}) =>
                 /\ DictKeys(StoreDevices(data', e)) = NamesIn(last'.payload)
                 /\ sensor[e].setup =>
                      \E w \in Workers : /\ sensor[e].pass[w].pc = "idle"
                                         /\ sensor'[e].pass[w].pc = "queued"
                 /\ button[e].setup =>
                      \E w \in Workers : /\ button[e].pass[w].pc = "idle"
                                         /\ button'[e].pass[w].pc = "queued"]_vars
    /\ [](\A e \in EntryIds :
            (SeedGaveNothing(e) /\ sensor[e].setup /\ AllIdle(sensor[e])) =>
               \A name \in DictKeys(StoreDevices(data, e)) :
                  ~Filtered(StoreConfigured(data, e), name) =>
                     StatusKey(name) \in sensor[e].added)

\* three fetches failed, the last by a timeout; the stream then brought
\* device a and a pass started by its signal made a's status sensor
C14_Witness ==
    /\ SeedGaveNothing("e1") /\ seed["e1"].outcome = "timeout"
    /\ DictHas(StoreDevices(data, "e1"), "a")
    /\ last.op = "sensor_pass" /\ AllIdle(sensor["e1"])
    /\ StatusSensor("a") \in sensor["e1"].emitted

-----------------------------------------------------------------------------
(* Error handling of the stream *)

\* C15: whatever the payload of a message received while connected (text
\* that is not JSON, JSON that is not a list, a list with entries that are
\* not objects or have no device_name), the listener stays connected, its
\* socket open, waiting for the next message.
C15_PayloadKeepsConnection ==
    [][\A e \in EntryIds :
         (last'.op = "apply" /\ last'.entry = e) =>
            (rt'[e].task = "connected" /\ rt'[e].ws = "open")]_vars

\* The objects of a list, in order
Objects(items) == SelectSeq(items, IsObject)

\* C16: the apply of a list with unnamed or malformed entries does not raise,
\* stores the named objects of the whole list, those after a bad entry
\* included, and sends the change signal.
C16_BadEntriesDropped ==
    [][\A e \in EntryIds :
         (last'.op = "apply" /\ last'.entry = e /\ last'.payload.kind = "list") =>
            /\ ~last'.raised
            /\ last'.signals = 1
            /\ \A name \in NamesIn(last'.payload) :
                  /\ DictHas(StoreDevices(data', e), name)
                  /\ DictValue(StoreDevices(data', e), name)
                       = LastCarrying(Objects(last'.payload.items), name)]_vars

\* The step taken last was a connect failure or a drop of the connection
StreamError(e) ==
    last'.entry = e /\ last'.op \in DropKinds \cup {"connect_failed"}

\* C17: a connect failure or a drop of the connection (clean close, error
\* close, other exception) changes nothing in the store, sends no change
\* signal, starts no discovery pass, and leaves the listener task alive in
\* its reconnect sleep.
C17_StreamErrorsAbsorbed ==
    [][\A e \in EntryIds :
         StreamError(e) =>
            /\ data' = data
            /\ last'.signals = 0 /\ ~last'.raised
            /\ sensor' = sensor /\ button' = button
            /\ rt'[e].task = "sleeping"]_vars

\* the connection closed with an error while a was in the mapping
C17_Witness ==
    /\ last.op = "closed_error" /\ rt["e1"].task = "sleeping"
    /\ DictHas(StoreDevices(data, "e1"), "a")

-----------------------------------------------------------------------------
(* Command dispatcher *)

\* The last call of the command of e is over
PressOver(e) == press[e].pc = "idle" /\ press[e].cause # "none"

\* C18: one press sends at most one POST /api/command: the request is sent
\* when the press starts, and no response, failure or timeout sends another.
C18_CommandNeverRepeated ==
    [][\A e \in EntryIds :
         /\ press'[e].posts <= 1
         /\ last'.op # "press" => press'[e].posts = press[e].posts]_vars

\* a press whose request could not connect: one POST was sent, and the call
\* ended in failure
C18_Witness ==
    /\ PressOver("e1") /\ press["e1"].cause = "connection"
    /\ press["e1"].posts = 1 /\ press["e1"].raised

\* C19: a response with a status of 400 or more whose body is a JSON object
\* gives the result {success: false, error: text}, the text being the body's
\* error field or, without one, the fallback "unknown error"; the body
\* {"error": "busy"} gives {success: false, error: "busy"}.
C19_NonSuccessResponse ==
    \A e \in EntryIds :
        (/\ press[e].pc = "idle" /\ press[e].status >= 400
         /\ press[e].body # NoBody /\ IsObject(press[e].body)) =>
            /\ press[e].raised
            /\ press[e].last_result =
                 [success |-> FALSE,
                  error |-> IF "error" \in DOMAIN press[e].body
                            THEN press[e].body.error ELSE "unknown error"]
            /\ press[e].body = [error |-> "busy"] =>
                 press[e].last_result = [success |-> FALSE, error |-> "busy"]

\* status 503 with the body {"error": "busy"}
C19_Witness ==
    /\ press["e1"].pc = "idle" /\ press["e1"].status = 503
    /\ press["e1"].body = [error |-> "busy"]
    /\ press["e1"].last_result = [success |-> FALSE, error |-> "busy"]

\* C20: a press that ends by a timeout, a connection error or a response
\* body that cannot be used gives a result with success false and an error
\* text that is not empty.
C20_TransportFailure ==
    \A e \in EntryIds :
        (PressOver(e) /\ press[e].cause \in {"timeout", "connection", "bad_body",
                                             "attribute"}) =>
            /\ press[e].last_result.success = FALSE
            /\ press[e].last_result.error # ""

\* The call failed: no response, a body that cannot be used, or a status of
\* 400 or more
PressFailure(e) ==
    /\ PressOver(e)
    /\ \/ press[e].body = NoBody
       \/ ~IsObject(press[e].body)
       \/ press[e].status >= 400

\* The result says success false
SaysFailed(result) == "success" \in DOMAIN result /\ result.success = FALSE

C22_SuccessReturnedAsIs ==
    \A e \in EntryIds :
        (/\ press[e].pc = "idle" /\ press[e].status = 200
         /\ press[e].body # NoBody /\ IsObject(press[e].body)) =>
            /\ press[e].last_result = press[e].body
            /\ ~press[e].raised

\* status 200 with the body {success: false, error: "busy"}, stored as it is
C22_Witness ==
    /\ press["e1"].pc = "idle" /\ press["e1"].status = 200
    /\ press["e1"].body = [success |-> FALSE, error |-> "busy"]
    /\ press["e1"].last_result = [success |-> FALSE, error |-> "busy"]
    /\ ~press["e1"].raised

-----------------------------------------------------------------------------
(* Concurrency of the store and of discovery *)

\* The mapping of e after the whole of a list is applied: every named object
\* of the list stored, in order
WholeApply(d, e, items) ==
    MergeDevices(StoreDevices(d, e), Objects(items), <<>>).devices

\* C23: the mapping a reader finds after a step that applies a list is the
\* mapping as it was before the apply or the mapping with the whole list
\* applied, also when an entry of the list makes the apply fail part-way.
C23_ApplyAtomic ==
    [][\A e \in EntryIds :
         (last'.op = "apply" /\ last'.entry = e /\ last'.payload.kind = "list") =>
            \/ StoreDevices(data', e) = StoreDevices(data, e)
            \/ StoreDevices(data', e) = WholeApply(data, e, last'.payload.items)]_vars

\* The workers that execute a pass of the platform: past its first statement
Executing(p) == {w \in Workers : p.pass[w].pc \notin {"idle", "queued"}}

\* C24: at any time at most one pass of the sensor ledger and at most one
\* pass of the button ledger is executing; a pass started by a signal while
\* another is in flight waits for it to finish.
C24_PassesNeverOverlap ==
    \A e \in EntryIds :
        /\ Cardinality(Executing(sensor[e])) <= 1
        /\ Cardinality(Executing(button[e])) <= 1

DeviceNames == {"a", "b"}

\* The device is in the mapping of e and passes the allow-list
Allowed(e, n) ==
    /\ DictHas(StoreDevices(data, e), n)
    /\ ~Filtered(StoreConfigured(data, e), n)

\* The step is the set-up of the sensor platform of e
SensorSubscribes(e) == ~sensor[e].setup /\ sensor'[e].setup

\* The ledger keys the button platform owes for the mapping and allow-list
OwedButtonKeys(e, devices, cfg) ==
    {ButtonKey(e, devices[i].k, Descriptions[j]) :
        <<i, j>> \in {x \in (1..Len(devices)) \X (1..Len(Descriptions)) :
                        /\ ~Filtered(cfg, devices[x[1]].k)
                        /\ DeviceType(devices[x[1]].v) \in Descriptions[x[2]].device_types}}

\* C25: no lost discovery.  The initial pass of the sensor platform puts in
\* the ledger the keys of every allowed device applied before the
\* subscription, in the step that subscribes; and once a platform is set up,
\* its ledger comes to hold, for every allowed device of the mapping, the
\* status key and the key of each attribute (sensor platform) and the command
\* keys of a nut device (button platform).
C25_NoLostDiscovery ==
    /\ [][\A e \in EntryIds :
            SensorSubscribes(e) =>
               OwedSensorKeys(StoreDevices(data', e), StoreConfigured(data', e))
                 \subseteq sensor'[e].added]_vars
    /\ \A e \in EntryIds :
          /\ sensor[e].setup
               ~> (OwedSensorKeys(StoreDevices(data, e), StoreConfigured(data, e))
                     \subseteq sensor[e].added)
          /\ button[e].setup
               ~> (OwedButtonKeys(e, StoreDevices(data, e), StoreConfigured(data, e))
                     \subseteq button[e].added)

\* a and b were streamed before the sensor platform subscribed, and its
\* initial pass has put the keys of both in the ledger
C25_Witness ==
    /\ last.op = "sensor_setup" /\ sensor["e1"].setup
    /\ Allowed("e1", "a") /\ Allowed("e1", "b")
    /\ {StatusKey("a"), EntityKey("a", "load"), StatusKey("b"), EntityKey("b", "load")}
         \subseteq sensor["e1"].added

\* C29: every list of new sensors handed to the entity layer, and the list
\* every pass is building, has for each device the status sensor before the
\* attribute sensors and the attribute sensors in ascending order of their
\* attribute names, whatever the order of the attributes in the snapshot.
C29_DiscoveryOrder ==
    \A e \in EntryIds :
        /\ sensor[e].unordered = {}
        /\ \A w \in Workers : InOrder(sensor[e].pass[w].new)

\* one pass found a with the attributes xon_battery, status, load in that
\* order and is about to hand over status, load, xon_battery
C29_Witness ==
    \E w \in Workers :
        /\ sensor["e1"].pass[w].pc = "emit"
        /\ sensor["e1"].pass[w].new
             = <<StatusSensor("a"), AttributeSensor("a", "load"),
                 AttributeSensor("a", "xon_battery")>>
        /\ Keys(Attrs(DictValue(StoreDevices(data, "e1"), "a")))
             = <<"xon_battery", "status", "load">>

\* C30: applying a list a second time changes nothing in the mapping: from
\* every reachable store, for every payload, the mapping after two applies
\* is the mapping after one; and a step that applies the list of device
\* snapshots applied by the step before leaves the mapping as it was and
\* sends one more change signal.
C30_IdempotentApply ==
    /\ [](\A e \in EntryIds : \A payload \in Payloads :
            LET once == UpdateState(data, e, payload)
                twice == UpdateState(once.data, e, payload)
            IN  e \in DOMAIN data =>
                   StoreDevices(twice.data, e) = StoreDevices(once.data, e))
    /\ [][\A e \in EntryIds :
            (last'.op = "apply" /\ last'.entry = e /\ last'.again) =>
               /\ StoreDevices(data', e) = StoreDevices(data, e)
               /\ IsSnapshotList(last'.payload) => last'.signals = 1]_vars

\* the list of a and b was applied twice in a row: the second apply sent its
\* signal, and the mapping holds a and b once each, as the list gives them
C30_Witness ==
    /\ last.op = "apply" /\ last.again
    /\ last.payload = ListPayload(<<DevA2, DevB1>>) /\ last.signals = 1
    /\ Keys(StoreDevices(data, "e1")) = <<"a", "b">>
    /\ DictValue(StoreDevices(data, "e1"), "a") = DevA2

-----------------------------------------------------------------------------
(* Command buttons and the device type *)

\* The device names of TypePayloads: each name comes with one snapshot, so
\* the snapshot in the mapping is the one every pass has read
TypedNames == {"a", "b", "c"}

\* The command keys of device n in the button ledger of e
CommandKeys(e, n) ==
    {i \in 1..Len(BUTTON_DESCRIPTIONS) :
        ButtonKey(e, n, BUTTON_DESCRIPTIONS[i]) \in button[e].added}

\* The snapshot of n in the mapping of e
Snapshot(e, n) == DictValue(StoreDevices(data, e), n)

-----------------------------------------------------------------------------
(* Entities of the sensor platform *)

\* The ledger key of an entity
KeyOf(x) ==
    IF x.cls = "UPSStatusSensor" THEN StatusKey(x.device_name)
    ELSE EntityKey(x.device_name, x.attribute)

\* A snapshot list has no entry for the device of x or, for an attribute
\* sensor, reports the device without the attribute
Omits(payload, x) ==
    /\ payload.kind = "list"
    /\ \A i \in 1..Len(payload.items) :
          payload.items[i].device_name = x.device_name =>
             /\ x.cls = "UPSAttributeSensor"
             /\ ~DictHas(Attrs(payload.items[i]), x.attribute)

\* The entity has subscribed and every job started for it has run
Settled(e, x) ==
    entity[e][x].added /\ ~entity[e][x].job /\ ~entity[e][x].write

\* C26: when the snapshot whose change signal reached an entity last omits
\* the entity's device or attribute, then, once the entity's handler and its
\* state write have run, the entity's key is still in the ledger and the
\* entity is reported unavailable.
C26_UnavailableNotGone ==
    \A e \in EntryIds : \A x \in Followed :
        (Settled(e, x) /\ Omits(entity[e][x].trigger, x)) =>
            /\ KeyOf(x) \in sensor[e].added
            /\ entity[e][x].state = "unavailable"

\* The step runs _handle_update of x: at its addition or as a job
Handled(e, x) ==
    \/ ~entity[e][x].added /\ entity'[e][x].added
    \/ entity[e][x].job /\ ~entity'[e][x].job

\* C27: the status sensor's handler gives "On Battery" for a device whose
\* status is "OB" or whose xon_battery is "1", "Online" for a device with any
\* other or no status, and "offline" with the entity unavailable for a device
\* that is not in the mapping.
C27_StatusDerivation ==
    [][\A e \in EntryIds :
         Handled(e, StatusSensor("a")) =>
            LET device == GetDevice(data, e, "a")
                ent == entity'[e][StatusSensor("a")]
            IN  IF device = NoDevice
                THEN ent.native_value = "offline" /\ ~ent.available
                ELSE /\ ent.available
                     /\ ent.native_value =
                          IF \/ AttrGet(Attrs(device), "status", "") = "OB"
                             \/ AttrGet(Attrs(device), "xon_battery", "") = "1"
                          THEN "On Battery" ELSE "Online"]_vars

-----------------------------------------------------------------------------
(* Stop, tear-down and independence of the connections *)

\* Both stop handlers of e have fired
StoppedTwice(e) == life[e].host_stopped /\ life[e].state # "loaded"

\* C31: a stop signal issued when one was issued before (the host-stop
\* handler after the unload handler or the unload handler after the
\* host-stop handler, the listener task ended or not) raises nothing, leaves
\* the stop event set, an ended task ended and a task that has not ended
\* with its cancellation pending, and changes nothing else; after it the
\* listener starts no connect attempt, completes no connection and applies
\* no message.
C31_StopIdempotent ==
    [][\A e \in EntryIds :
         /\ (last'.op = "stop" /\ last'.entry = e /\ StopIssued(e)) =>
               /\ ~last'.raised
               /\ data' = data /\ plat' = plat
               /\ rt'[e].stop_event
               /\ rt'[e].task = rt[e].task /\ rt'[e].ws = rt[e].ws
               /\ rt[e].task = "done" => rt'[e] = rt[e]
               /\ rt[e].task # "done" => rt'[e].must_cancel
         /\ StoppedTwice(e) =>
               /\ ~(last'.entry = e /\ last'.op \in {"connect", "connected", "apply"})
               /\ rt[e].task = "done" => rt'[e].task = "done"]_vars

\* the host-stop handler fired after the unload was over and the task ended
C31_Witness ==
    /\ last.op = "stop" /\ StoppedTwice("e1")
    /\ life["e1"].state = "unloaded" /\ rt["e1"].ended = "cancelled"

-----------------------------------------------------------------------------
(* Endpoint derivation *)

\* The scheme of the URL derived from an address with the given scheme, the
\* letter case of the scheme not counting; any other scheme derives no URL
DerivedScheme ==
    [sc \in {"ws", "http"} |-> "http"] @@ [sc \in {"wss", "WSS", "https"} |-> "https"]

\* C32: build_http_url gives no URL for the empty address and for an address
\* whose scheme is none of ws, wss, http, https; for the others it gives the
\* URL made of http (for ws and http) or https (for wss and https), the host
\* and port of the address, and the path asked for, whatever path and query
\* the address had; applied to the URL it returned, with the same path, it
\* returns that URL again.
C32_EndpointDerivation ==
    /\ http.pc \in {"derived", "again"} =>
          IF http.given.scheme \in DOMAIN DerivedScheme
          THEN http.url = DerivedScheme[http.given.scheme] \o "://"
                             \o http.given.netloc \o http.path
          ELSE http.url = NoneVal
    /\ http.pc = "again" => http.again = http.url

\* a wss address with a path and a query gave the https status URL, twice
C32_Witness ==
    /\ http.pc = "again" /\ http.given.text = "wss://ups:8080/ws?token=1"
    /\ http.url = "https://ups:8080/api/status"
    /\ http.again = "https://ups:8080/api/status"

\* What entry b has in the store, in its ledgers and handed to its observers
Footprint(b) ==
    [store |-> IF b \in DOMAIN data THEN <<data[b]>> ELSE <<>>,
     sensor |-> sensor[b], button |-> button[b], entity |-> entity[b]]

\* C33: a step of connection a (an apply, a loss of its connection, a stop
\* or an unload, a step of its listener or of its discovery) leaves the
\* device mapping, the allow-list and the ledgers of every other connection
\* b as they were, starts no discovery pass of b and no job of b's entities,
\* and leaves b's listener where it was.
C33_ConnectionsIndependent ==
    [][\A a, b \in PairIds :
         (a # b /\ last'.entry = a) =>
            /\ Footprint(b)' = Footprint(b)
            /\ rt'[b] = rt[b] /\ life'[b] = life[b]]_vars

\* e1 applied a list and its signal queued a pass of e1's sensor platform,
\* while e2, set up with an empty mapping, has no pass to run
C33_Witness ==
    /\ last.op = "apply" /\ last.entry = "e1" /\ last.signals = 1
    /\ \E w \in Workers : sensor["e1"].pass[w].pc = "queued"
    /\ sensor["e2"].setup /\ IdleWorkers(sensor["e2"]) = Workers
    /\ "e2" \in DOMAIN data /\ StoreDevices(data, "e2") = <<>>
    /\ sensor["e2"].added = {}

\* C34: when the unload of an entry has completed, its listener task has
\* ended with the socket closed and its store entry is gone; from then on no
\* step of the entry applies a message, sends a change signal, connects, or
\* puts the store entry back.
C34_DestroyedAtTeardown ==
    /\ [](\A e \in EntryIds :
            life[e].state = "unloaded" =>
               /\ e \notin DOMAIN data
               /\ rt[e].task = "done" /\ rt[e].ws # "open")
    /\ [][\A e \in EntryIds :
            life[e].state = "unloaded" =>
               /\ data' = data
               /\ last'.entry = e =>
                     /\ last'.signals = 0
                     /\ last'.op \notin {"apply", "connect", "connected", "tick"}]_vars

\* the unload came while the listener waited for a message: the task was
\* cancelled, the socket closed, and the store entry popped
C34_Witness ==
    /\ last.op = "unloaded" /\ life["e1"].state = "unloaded"
    /\ rt["e1"].ws = "closed" /\ rt["e1"].ended = "cancelled"
    /\ "e1" \notin DOMAIN data

-----------------------------------------------------------------------------
(* Options flow *)

NoDuplicates(devices) ==
    \A i, j \in 1..Len(devices) : i # j => devices[i] # devices[j]

\* The form submitted in this step is shown again with errors and the
\* configured devices are as before
Refused(f, errors, form) ==
    /\ flow'[f].errors = errors /\ flow'[f].step = form
    /\ flow'[f].pending = flow[f].pending
    /\ options' = options

\* C35: the configured devices of the entry never hold a device_name twice,
\* whatever add-device and reconfigure-device steps two options flows take
\* and however they interleave; an add-device form with a name that a
\* configured device has, and a reconfigure form that renames to such a
\* name, are shown again with the error already_configured and change
\* nothing.
C35_NoDuplicateNames ==
    /\ [](NoDuplicates(options))
    /\ [][/\ (last'.op = "add_device"
                /\ Configured(options, last'.payload.name)) =>
                 Refused(last'.payload.flow, "already_configured", "add_device")
          /\ (last'.op = "reconfigure_submit"
                /\ last'.payload.name # flow[last'.payload.flow].selected
                /\ Configured(options, last'.payload.name)) =>
                 Refused(last'.payload.flow, "already_configured",
                         "reconfigure_device_update")]_vars

-----------------------------------------------------------------------------
(* Ledger keys *)

\* The facets of the devices of a store: the status of each device and each
\* of its attributes but "status"
FacetsOf(devices) ==
    UNION {{StatusSensor(devices[i].k)}
             \cup {AttributeSensor(devices[i].k, k) :
                     k \in DictKeys(Attrs(devices[i].v)) \ {"status"}} :
           i \in 1..Len(devices)}

\* The commands of the devices of a store
CommandsOf(devices) ==
    {[device_name |-> devices[i].k, desc |-> BUTTON_DESCRIPTIONS[j]] :
        i \in 1..Len(devices), j \in 1..Len(BUTTON_DESCRIPTIONS)}

\* C36: two different facets of the devices of a connection never have the
\* same ledger key, and neither do two different commands; once the passes
\* of the sensor platform have ended, a facet of the store whose key is in
\* the ledger is a facet whose entity was handed to the entity layer (no
\* facet is skipped because the key of another one was recorded).
C36_KeysUnique ==
    \A e \in DOMAIN sensor :
        /\ \A x, y \in FacetsOf(StoreDevices(data, e)) :
              x # y => KeyOf(x) # KeyOf(y)
        /\ \A c, d \in CommandsOf(StoreDevices(data, e)) :
              c # d => ButtonKey(e, c.device_name, c.desc)
                          # ButtonKey(e, d.device_name, d.desc)
        /\ (sensor[e].setup /\ IdleWorkers(sensor[e]) = Workers) =>
              \A x \in FacetsOf(StoreDevices(data, e)) :
                  KeyOf(x) \in sensor[e].added => x \in sensor[e].emitted

-----------------------------------------------------------------------------
(* One listener task for a connection *)

\* The listener tasks of an entry that have been created and have not ended
LiveTasks(e) == rt[e].orphans + (IF Live(rt[e]) THEN 1 ELSE 0)

\* A listener task is created in this step: the set-up of the entry has
\* left its seed loop
TaskCreated(e) == last'.op = "seed_done" /\ last'.entry = e

\* C37: through set-up, unload and the reload that follows a change of the
\* options, in any order, an entry never has more than one listener task
\* that has not ended, and a listener task is created only when the task
\* created before it, if there was one, has ended.
C37_OneStreamClient ==
    /\ [](\A e \in DOMAIN rt : LiveTasks(e) <= 1)
    /\ [][\A e \in DOMAIN rt : TaskCreated(e) => ~Live(rt[e])]_vars

\* The options were changed, the reload has stopped the first task and set
\* the entry up with the new options, and the task of the new set-up is
\* connected
C37_Witness ==
    /\ options = <<"a">> /\ life["e1"].updates = 0
    /\ life["e1"].state = "loaded"
    /\ "e1" \in DOMAIN data /\ data["e1"].configured_names = {"a"}
    /\ rt["e1"].task = "connected" /\ LiveTasks("e1") = 1

====
